---- MODULE Spec2Model ----
(***************************************************************************)
(* Model of the text-diagram rendering engine of mcp_google_sheets         *)
(* (src/src/mcp_google_sheets/server.py, lines 216-1037) and of the two    *)
(* tool entry points that call it.                                         *)
(*                                                                         *)
(* Conventions                                                             *)
(*   - a Python str is a sequence of one-character tokens; a box-drawing   *)
(*     or block glyph is the token "U" + its code point ("U250C" is the    *)
(*     light top-left corner), a caller's character is itself ("H");       *)
(*   - a Python list of str is a sequence of such sequences;               *)
(*   - an optional argument is a sequence of length <= 1: None is << >>,   *)
(*     the value n is <<n>>;                                               *)
(*   - a dict is a record; dict.get(k, d) is Get(e, k, d);                 *)
(*   - a float is an exact real of the form (a + b*sqrt(n)) / d.           *)
(***************************************************************************)
EXTENDS Integers, Sequences, FiniteSets, TLC

VARIABLES
    tables,   \* the module-level glyph, ramp, palette and style tables
    fn,       \* the entry point of the call in progress
    args,     \* its arguments
    pc,       \* "ready" (not yet called), "loop" (inside _ascii_diagram),
              \* "done" (returned), "raised" (left by an exception);
              \* sheets_data: "got" (the sheet id is known), "write" (the
              \* lines are ready), "format" (the values are written)
    idx,      \* _ascii_diagram: 1-based position of the next element
    result,   \* _ascii_diagram: the lines accumulated so far
    invoked,  \* whether _ascii_diagram was entered by this call
    ret,      \* the value returned
    hist,     \* the log of the completed calls: <<fn, args, returned value>>
    sheet     \* sheets_data: what the call has made the spreadsheet service
              \* do: the values it wrote, whether it formatted them

vars == <<tables, fn, args, pc, idx, result, invoked, ret, hist, sheet>>

(***************************************************************************)
(* Python built-ins                                                        *)
(***************************************************************************)
None == << >>

Some(x) == <<x>>

\* bool(x) of an Optional[int]: None and 0 are falsy
TruthyInt(o) == o # None /\ o[1] # 0

\* bool(o) of an Optional[str]: None and "" are falsy
TruthyOpt(o) == o # None /\ Len(o[1]) > 0

\* bool(s) of a str or list: empty is falsy
TruthySeq(s) == Len(s) > 0

\* dict.get(k, d)
Get(e, k, d) == IF k \in DOMAIN e THEN e[k] ELSE d

Max2(a, b) == IF a >= b THEN a ELSE b

Min2(a, b) == IF a <= b THEN a ELSE b

\* max(...) of a non-empty collection of integers
MaxOf(S) == CHOOSE m \in S : \A k \in S : k <= m

\* s * n for a str s: empty when n <= 0
Rep(s, n) ==
    IF n <= 0 \/ Len(s) = 0 THEN << >>
    ELSE [i \in 1..(n * Len(s)) |-> s[((i - 1) % Len(s)) + 1]]

\* s[:k], negative k counting from the end
SliceTo(s, k) ==
    IF k >= 0 THEN SubSeq(s, 1, Min2(k, Len(s)))
    ELSE SubSeq(s, 1, Max2(Len(s) + k, 0))

\* the lengths of the lines of a list
LineLens(ls) == {Len(ls[i]) : i \in 1..Len(ls)}

\* sep.join(parts) for a list of str
RECURSIVE Join(_, _)
Join(sep, parts) ==
    IF Len(parts) = 0 THEN << >>
    ELSE IF Len(parts) = 1 THEN parts[1]
    ELSE parts[1] \o sep \o Join(sep, Tail(parts))

\* the concatenation of a list of lists
RECURSIVE Flatten(_)
Flatten(ps) == IF Len(ps) = 0 THEN << >> ELSE ps[1] \o Flatten(Tail(ps))

(***************************************************************************)
(* Binary64 floats.  The interpreter computes every ratio, shade and       *)
(* contrast curve in IEEE 754 doubles, each operation rounded to 53 bits,  *)
(* ties to even.  A double is the record [s, m, e] standing for            *)
(* (-1)^s * m * 2^e, with m an odd natural below 2^53 kept as its limbs    *)
(* below 2^15, lowest first (zero: no limbs, s = 0, e = 0).  The values    *)
(* met are far from the subnormal and the overflow range, and the sign of  *)
(* a zero never shows in a result.                                         *)
(***************************************************************************)
\* op(x) and op(x, y) on the values of x and y: an operand is computed,
\* once, before the operation that takes it
Eager1(op(_), x) == [a \in {x} |-> op(a)][x]

Eager2(op(_, _), x, y) == [a \in {x}, b \in {y} |-> op(a, b)][x, y]

\* a limb sequence without its high zero limbs
LNorm(a) ==
    LET nz == {k \in 1..Len(a) : a[k] # 0}
    IN IF nz = {} THEN << >> ELSE SubSeq(a, 1, MaxOf(nz))

\* the limbs of the natural n < 2^31, lowest first
LimbsOf(n) == LNorm(<<n % 32768, (n \div 32768) % 32768, n \div 1073741824>>)

\* a + b + c for a carry c
RECURSIVE LAddC(_, _, _)
LAddC(a, b, c) ==
    IF Len(a) = 0 /\ Len(b) = 0 THEN (IF c = 0 THEN << >> ELSE <<c>>)
    ELSE LET x == IF Len(a) = 0 THEN 0 ELSE a[1]
             y == IF Len(b) = 0 THEN 0 ELSE b[1]
             t == x + y + c
         IN <<t % 32768>> \o LAddC(IF Len(a) = 0 THEN a ELSE Tail(a),
                                   IF Len(b) = 0 THEN b ELSE Tail(b), t \div 32768)

LAdd(a, b) == LNorm(LAddC(a, b, 0))

\* a - b - c for a borrow c, a >= b + c
RECURSIVE LSubC(_, _, _)
LSubC(a, b, c) ==
    IF Len(a) = 0 THEN << >>
    ELSE LET y == IF Len(b) = 0 THEN 0 ELSE b[1]
             t == a[1] - y - c
         IN <<(t + 32768) % 32768>>
            \o LSubC(Tail(a), IF Len(b) = 0 THEN b ELSE Tail(b),
                     IF t < 0 THEN 1 ELSE 0)

LSub(a, b) == LNorm(LSubC(a, b, 0))

\* the sign of a - b
LCmp(a, b) ==
    IF Len(a) # Len(b) THEN (IF Len(a) > Len(b) THEN 1 ELSE -1)
    ELSE LET diff == {k \in 1..Len(a) : a[k] # b[k]}
         IN IF diff = {} THEN 0
            ELSE IF a[MaxOf(diff)] > b[MaxOf(diff)] THEN 1 ELSE -1

\* a * x + c for a natural x <= 2^15 and a carry c
RECURSIVE LMulSmallC(_, _, _)
LMulSmallC(a, x, c) ==
    IF Len(a) = 0 THEN (IF c = 0 THEN << >> ELSE <<c>>)
    ELSE LET t == a[1] * x + c
         IN <<t % 32768>> \o LMulSmallC(Tail(a), x, t \div 32768)

\* limb k of a, 0 outside its length
LimbAt(a, k) == IF k >= 1 /\ k <= Len(a) THEN a[k] ELSE 0

\* the low and the high halves of the limb products of a and b that fall
\* into limb k, summed; a below 2^60
LColumnLow(a, b, k) ==
    ((LimbAt(a, 1) * LimbAt(b, k)) % 32768)
    + ((LimbAt(a, 2) * LimbAt(b, k - 1)) % 32768)
    + ((LimbAt(a, 3) * LimbAt(b, k - 2)) % 32768)
    + ((LimbAt(a, 4) * LimbAt(b, k - 3)) % 32768)

LColumnHigh(a, b, k) ==
    ((LimbAt(a, 1) * LimbAt(b, k)) \div 32768)
    + ((LimbAt(a, 2) * LimbAt(b, k - 1)) \div 32768)
    + ((LimbAt(a, 3) * LimbAt(b, k - 2)) \div 32768)
    + ((LimbAt(a, 4) * LimbAt(b, k - 3)) \div 32768)

\* what the limb products leave in limb k before the carries between the
\* columns: below 2^19
LColumn(a, b, k) == LColumnLow(a, b, k) + LColumnHigh(a, b, k - 1)

\* a * b for a below 2^60
LMul(a, b) ==
    LAdd([k \in 1..(Len(a) + Len(b)) |-> LColumn(a, b, k) % 32768],
         <<0>> \o [k \in 1..(Len(a) + Len(b)) |-> LColumn(a, b, k) \div 32768])

\* a * 2^k, k >= 0: limb i takes the low bits of limb i - k \div 15 and the
\* high bits of the limb below it
LShl(a, k) ==
    LNorm([i \in 1..(Len(a) + (k \div 15) + 1) |->
              ((LimbAt(a, i - (k \div 15)) * (2 ^ (k % 15))) % 32768)
              + (LimbAt(a, i - (k \div 15) - 1) \div (2 ^ (15 - (k % 15))))])

\* floor(a / 2^k), k >= 0, and whether a remainder is left
LShr(a, k) ==
    [q |-> LNorm([i \in 1..(Len(a) - (k \div 15)) |->
                     (LimbAt(a, i + (k \div 15)) \div (2 ^ (k % 15)))
                     + ((LimbAt(a, i + (k \div 15) + 1) % (2 ^ (k % 15)))
                            * (2 ^ (15 - (k % 15))))]),
     sticky |-> \/ \E j \in 1..Min2(k \div 15, Len(a)) : a[j] # 0
                \/ LimbAt(a, (k \div 15) + 1) % (2 ^ (k % 15)) # 0]

\* the number of bits of a
LBitLen(a) ==
    IF Len(a) = 0 THEN 0
    ELSE 15 * (Len(a) - 1)
         + (CHOOSE k \in 1..15 : 2 ^ (k - 1) <= a[Len(a)] /\ a[Len(a)] < 2 ^ k)

LOdd(a) == Len(a) > 0 /\ a[1] % 2 = 1

\* the number of low zero bits of a > 0
LLowZeros(a) ==
    LET w == (CHOOSE k \in 1..Len(a) : a[k] # 0 /\ \A j \in 1..(k - 1) : a[j] = 0) - 1
    IN 15 * w + (CHOOSE t \in 0..14 :
                     a[w + 1] % (2 ^ (t + 1)) # 0 /\ a[w + 1] % (2 ^ t) = 0)

\* the natural a, below 2^31, as an integer
RECURSIVE LInt(_)
LInt(a) == IF Len(a) = 0 THEN 0 ELSE a[1] + 32768 * LInt(Tail(a))

\* floor(r / d) for a d whose top limb is at least 2^14 and r < d * 2^15:
\* the quotient of the top limbs is at most 2 above it
LDigit(r, d) ==
    LET n == Len(d)
        qhat == Min2(32767, (LimbAt(r, n + 1) * 32768 + LimbAt(r, n)) \div d[n])
    IN CHOOSE q \in Max2(0, qhat - 2)..qhat :
           /\ LCmp(LNorm(LMulSmallC(d, q, 0)), r) <= 0
           /\ LCmp(LNorm(LMulSmallC(d, q + 1, 0)), r) > 0

\* long division of a by d, the top limb of d being at least 2^14: limbs k
\* down to 1 of a are still to be brought down, q holds the quotient limbs
\* found so far (lowest first) and r < d the running remainder
RECURSIVE LDivFrom(_, _, _, _, _)
LDivFrom(a, d, k, q, r) ==
    IF k = 0 \/ LCmp(r, d) >= 0 THEN [q |-> q, r |-> r]
    ELSE LET cur == LNorm(<<a[k]>> \o r)
             t == LDigit(cur, d)
         IN IF t = 0 THEN LDivFrom(a, d, k - 1, <<0>> \o q, cur)
            ELSE LDivFrom(a, d, k - 1, <<t>> \o q,
                          LSub(cur, LNorm(LMulSmallC(d, t, 0))))

\* quotient and remainder of n divided by d, the top limb of d being at
\* least 2^14: the top Len(d) - 1 limbs of n are below d and start the
\* running remainder
LDivNormal(n, d) ==
    IF Len(n) < Len(d) THEN [q |-> << >>, r |-> n]
    ELSE LDivFrom(n, d, Len(n) - Len(d) + 1, << >>,
                  LNorm(SubSeq(n, Len(n) - Len(d) + 2, Len(n))))

LDivResult(qr) == [q |-> LNorm(qr.q), sticky |-> Len(qr.r) > 0]

\* floor(a / d) for d > 0, and whether a remainder is left
LDiv(a, d) ==
    Eager1(LDivResult, LDivNormal(LShl(a, 15 * Len(d) - LBitLen(d)),
                                  LShl(d, 15 * Len(d) - LBitLen(d))))

\* the k with 2 * k + 1 or 2 * k + 2 the number of bits of n > 0
LHalfBits(n) == (LBitLen(n) - 1) \div 2

\* an a with (a - 1)^2 < n < (a + 1)^2 from such a root b of the top bits
\* of n, n >> (2 * k + 2) with k = (LHalfBits(n) - 1) \div 2: one step of
\* Newton's iteration doubles the bits that are right
LSqrtRefine(n, k, b) == Eager2(LAdd, LShl(b, k), LDiv(LShr(n, k + 2).q, b).q)

RECURSIVE LSqrtNear(_)
LSqrtNear(n) ==
    IF LBitLen(n) <= 2 THEN <<1>>
    ELSE Eager1(LAMBDA b : LSqrtRefine(n, (LHalfBits(n) - 1) \div 2, b),
                LSqrtNear(LShr(n, 2 * ((LHalfBits(n) - 1) \div 2) + 2).q))

\* a, or a - 1 when a * a is above n
LSqrtFloor(n, a) == IF LCmp(LMul(a, a), n) <= 0 THEN a ELSE LSub(a, <<1>>)

\* floor(sqrt(n))
LSqrt(n) ==
    IF Len(n) = 0 THEN n ELSE Eager1(LAMBDA a : LSqrtFloor(n, a), LSqrtNear(n))

F64Zero == [s |-> 0, m |-> << >>, e |-> 0]

\* (-1)^s * m * 2^e with the low zero bits of m moved into the exponent
F64Canon(s, m, e) ==
    IF Len(m) = 0 THEN F64Zero
    ELSE [s |-> s, m |-> LShr(m, LLowZeros(m)).q, e |-> e + LLowZeros(m)]

\* q, or q + 1 when the cut part rounds up
F64Bump(s, q, e, up) == F64Canon(s, IF up THEN LAdd(q, <<1>>) ELSE q, e)

\* lo.q holds the 53 bits that are kept and, lowest, the first bit that is
\* cut; lo.sticky and sticky say whether anything nonzero is cut below it
F64Nearest(s, lo, e, sticky) ==
    F64Bump(s, LShr(lo.q, 1).q, e,
            LOdd(lo.q) /\ (sticky \/ lo.sticky \/ LOdd(LShr(lo.q, 1).q)))

\* the double nearest to (-1)^s * (m + f) * 2^e, ties to even, where
\* 0 <= f < 1 and sticky says f > 0
F64Round(s, m, e, sticky) ==
    IF LBitLen(m) <= 53 THEN F64Canon(s, m, e)
    ELSE F64Nearest(s, LShr(m, LBitLen(m) - 54), e + LBitLen(m) - 53, sticky)

\* float(i) for an int i, |i| < 2^31
F64Of(i) == F64Canon(IF i < 0 THEN 1 ELSE 0, LimbsOf(IF i < 0 THEN -i ELSE i), 0)

F64Neg(x) == IF Len(x.m) = 0 THEN x ELSE [x EXCEPT !.s = 1 - x.s]

\* (-1)^sa * a * 2^e + (-1)^sb * b * 2^e
F64AddAligned(sa, a, sb, b, e) ==
    F64Round(IF sa = sb \/ LCmp(a, b) >= 0 THEN sa ELSE sb,
             IF sa = sb THEN LAdd(a, b)
             ELSE IF LCmp(a, b) >= 0 THEN LSub(a, b) ELSE LSub(b, a),
             e, FALSE)

F64Sum(x, y) ==
    IF Len(x.m) = 0 THEN y
    ELSE IF Len(y.m) = 0 THEN x
    ELSE F64AddAligned(x.s, LShl(x.m, x.e - Min2(x.e, y.e)),
                       y.s, LShl(y.m, y.e - Min2(x.e, y.e)), Min2(x.e, y.e))

\* x + y
F64Add(x, y) == Eager2(F64Sum, x, y)

\* x - y
F64Sub(x, y) == F64Add(x, F64Neg(y))

F64Product(x, y) ==
    IF Len(x.m) = 0 \/ Len(y.m) = 0 THEN F64Zero
    ELSE F64Round((x.s + y.s) % 2, LMul(x.m, y.m), x.e + y.e, FALSE)

\* x * y
F64Mul(x, y) == Eager2(F64Product, x, y)

\* the double nearest to a value whose integer part d.q and remainder flag
\* d.sticky are known
F64RoundCut(s, d, e) == F64Round(s, d.q, e, d.sticky)

\* x / y from the quotient of x.m * 2^k by y.m, which has 55 bits or more
F64QuotScaled(x, y, k) ==
    F64RoundCut((x.s + y.s) % 2, LDiv(LShl(x.m, k), y.m), x.e - y.e - k)

F64Ratio(x, y) ==
    IF Len(x.m) = 0 THEN F64Zero
    ELSE F64QuotScaled(x, y, Max2(0, 55 + LBitLen(y.m) - LBitLen(x.m)))

\* x / y, y # 0
F64Quot(x, y) == Eager2(F64Ratio, x, y)

\* n / d for ints n and d # 0: the true division of two ints
F64Div(n, d) == F64Quot(F64Of(n), F64Of(d))

\* the double nearest to sqrt(n) * 2^e, r being floor(sqrt(n))
F64SqrtRound(n, r, e) == F64Round(0, r, e, LCmp(LMul(r, r), n) # 0)

F64SqrtScaled(n, e) == F64SqrtRound(n, LSqrt(n), e)

\* sqrt(x) from the root of x.m * 2^k for the k or k + 1 that leaves an
\* even exponent: the root has 55 bits or more
F64SqrtShift(x, k) ==
    F64SqrtScaled(LShl(x.m, k + ((x.e - k) % 2)), (x.e - k - ((x.e - k) % 2)) \div 2)

F64Root(x) ==
    IF Len(x.m) = 0 THEN F64Zero
    ELSE F64SqrtShift(x, 110 - LBitLen(x.m))

\* math.sqrt(x), x >= 0
F64Sqrt(x) == Eager1(F64Root, x)

\* x < y and x <= y
F64Negative(d) == Len(d.m) > 0 /\ d.s = 1

F64Lt(x, y) == Eager1(F64Negative, F64Sub(x, y))

F64Le(x, y) == ~F64Lt(y, x)

\* min(x, y) and max(x, y) of two arguments: the first one unless the
\* second is smaller, or larger
F64Lesser(x, y) == IF F64Lt(y, x) THEN y ELSE x

F64Min(x, y) == Eager2(F64Lesser, x, y)

F64Greater(x, y) == IF F64Lt(x, y) THEN y ELSE x

F64Max(x, y) == Eager2(F64Greater, x, y)

\* int(x): truncation toward zero, |x| < 2^31
F64Trunc(x) ==
    IF Len(x.m) = 0 THEN 0
    ELSE (IF x.s = 1 THEN -1 ELSE 1)
         * (IF x.e >= 0 THEN LInt(LShl(x.m, x.e)) ELSE LInt(LShr(x.m, -x.e).q))

F64Int(x) == Eager1(F64Trunc, x)

\* k, or k + 1 when the half bit is set and more is cut below it or k is odd
HalfUp(k, half, sticky) == IF half /\ (sticky \/ k % 2 = 1) THEN k + 1 ELSE k

\* t.q holds the integer part and, lowest, the half bit
NearestInt(t) == HalfUp(LInt(LShr(t.q, 1).q), LOdd(t.q), t.sticky)

\* |x| rounded to the nearest integer, ties to even, as the format ".0f"
\* rounds the exact value of the double
F64RoundAbs(x) ==
    IF Len(x.m) = 0 THEN 0
    ELSE IF x.e >= 0 THEN LInt(LShl(x.m, x.e))
    ELSE NearestInt(LShr(x.m, -x.e - 1))

(***************************************************************************)
(* Number formatting                                                       *)
(***************************************************************************)
\* str(n) for an integer n >= 0
RECURSIVE Digits(_)
Digits(n) ==
    LET ds == <<"0", "1", "2", "3", "4", "5", "6", "7", "8", "9">>
    IN IF n < 10 THEN <<ds[n + 1]>> ELSE Digits(n \div 10) \o <<ds[(n % 10) + 1]>>

\* f"{v:.0f}" for a double v: a negative v keeps its sign even when it
\* rounds to zero
FormatF0(v) ==
    (IF Len(v.m) > 0 /\ v.s = 1 THEN <<"-">> ELSE << >>) \o Digits(F64RoundAbs(v))

(***************************************************************************)
(* Module-level tables (server.py 221-248)                                 *)
(***************************************************************************)
ASCII0 ==
    [tl |-> <<"U250C">>, tr |-> <<"U2510">>, bl |-> <<"U2514">>, br |-> <<"U2518">>,
     h |-> <<"U2500">>, v |-> <<"U2502">>,
     arrow_r |-> <<"U25BA">>, arrow_l |-> <<"U25C4">>,
     arrow_d |-> <<"U25BC">>, arrow_u |-> <<"U25B2">>,
     line_r |-> <<"U2500", "U25BA">>, line_l |-> <<"U25C4", "U2500">>,
     line_d |-> <<"U2500", "U25BC">>, line_u |-> <<"U25B2", "U2500">>,
     t_down |-> <<"U252C">>, t_up |-> <<"U2534">>,
     t_right |-> <<"U251C">>, t_left |-> <<"U2524">>, cross |-> <<"U253C">>]

CHART_BLOCKS0 ==
    <<"U2588", "U2589", "U258A", "U258B", "U258C", "U258D", "U258E", "U258F">>

SPARKLINE_CHARS0 ==
    <<"U2581", "U2582", "U2583", "U2584", "U2585", "U2586", "U2587", "U2588">>

SHADING_PALETTES0 ==
    [ascii |-> <<" ", ".", ":", "-", "=", "+", "*", "#", "%", "@">>,
     blocks |-> <<" ", "U2591", "U2592", "U2593", "U2588">>,
     dots |-> <<" ", "U00B7", "U2218", "U25CB", "U25CF", "U25C9">>,
     density |-> <<" ", ".", ",", ";", "!", "l", "I", "$", "@">>,
     braille |-> <<"U2800", "U2801", "U2803", "U2807", "U280F", "U281F", "U283F", "U28FF">>]

BOX_STYLES0 ==
    [light |-> [h |-> <<"U2500">>, v |-> <<"U2502">>, tl |-> <<"U250C">>,
                tr |-> <<"U2510">>, bl |-> <<"U2514">>, br |-> <<"U2518">>,
                t_down |-> <<"U252C">>, t_up |-> <<"U2534">>,
                t_right |-> <<"U251C">>, t_left |-> <<"U2524">>, cross |-> <<"U253C">>],
     heavy |-> [h |-> <<"U2501">>, v |-> <<"U2503">>, tl |-> <<"U250F">>,
                tr |-> <<"U2513">>, bl |-> <<"U2517">>, br |-> <<"U251B">>,
                t_down |-> <<"U2533">>, t_up |-> <<"U253B">>,
                t_right |-> <<"U2523">>, t_left |-> <<"U252B">>, cross |-> <<"U254B">>],
     double |-> [h |-> <<"U2550">>, v |-> <<"U2551">>, tl |-> <<"U2554">>,
                 tr |-> <<"U2557">>, bl |-> <<"U255A">>, br |-> <<"U255D">>,
                 t_down |-> <<"U2566">>, t_up |-> <<"U2569">>,
                 t_right |-> <<"U2560">>, t_left |-> <<"U2563">>, cross |-> <<"U256C">>],
     rounded |-> [h |-> <<"U2500">>, v |-> <<"U2502">>, tl |-> <<"U256D">>,
                  tr |-> <<"U256E">>, bl |-> <<"U2570">>, br |-> <<"U256F">>,
                  t_down |-> <<"U252C">>, t_up |-> <<"U2534">>,
                  t_right |-> <<"U251C">>, t_left |-> <<"U2524">>, cross |-> <<"U253C">>]]

\* the tables as the module leaves them after import
Tables0 ==
    [ASCII |-> ASCII0, CHART_BLOCKS |-> CHART_BLOCKS0,
     SPARKLINE_CHARS |-> SPARKLINE_CHARS0,
     SHADING_PALETTES |-> SHADING_PALETTES0, BOX_STYLES |-> BOX_STYLES0]

\* the tables as a render reads them: the current value of the module globals
ASCII == tables.ASCII

CHART_BLOCKS == tables.CHART_BLOCKS

SPARKLINE_CHARS == tables.SPARKLINE_CHARS

SHADING_PALETTES == tables.SHADING_PALETTES

BOX_STYLES == tables.BOX_STYLES

\* the light-shade glyph of the progress bar's empty part (server.py 650)
LIGHT_SHADE == <<"U2591">>

(***************************************************************************)
(* Primitive renderers                                                     *)
(***************************************************************************)
\* a centering that puts the odd space on the left
CenterHeavyLeft(text, width) ==
    IF Len(text) >= width THEN SliceTo(text, width)
    ELSE LET padding == width - Len(text)
             left == (padding + 1) \div 2
             right == padding - left
         IN Rep(<<" ">>, left) \o text \o Rep(<<" ">>, right)

\* _ascii_center (server.py 251-258)
_ascii_center(text, width) ==
    IF Len(text) >= width THEN SliceTo(text, width)
    ELSE LET padding == width - Len(text)
             left == padding \div 2
             right == padding - left
         IN Rep(<<" ">>, left) \o text \o Rep(<<" ">>, right)

\* a border with the junction after the longer half
BoxBorderHeavyLeft(lc, rc, junction, connector, total_width) ==
    IF connector
    THEN LET remainder == (total_width - 3) \div 2
             half == (total_width - 3) - remainder
         IN ASCII[lc] \o Rep(ASCII.h, half) \o ASCII[junction]
                \o Rep(ASCII.h, remainder) \o ASCII[rc]
    ELSE ASCII[lc] \o Rep(ASCII.h, total_width - 2) \o ASCII[rc]

\* the border of _ascii_box with the connector glyph of ASCII[junction]
\* (server.py 282-287, 294-299)
BoxBorder(lc, rc, junction, connector, total_width) ==
    IF connector
    THEN LET half == (total_width - 3) \div 2
             remainder == (total_width - 3) - half
         IN ASCII[lc] \o Rep(ASCII.h, half) \o ASCII[junction]
                \o Rep(ASCII.h, remainder) \o ASCII[rc]
    ELSE ASCII[lc] \o Rep(ASCII.h, total_width - 2) \o ASCII[rc]

\* inner width of _ascii_box (server.py 277)
BoxInnerWidth(lines, width, padding) ==
    IF ~TruthyInt(width) THEN MaxOf(LineLens(lines))
    ELSE width[1] - 2 - (padding * 2)

\* _ascii_box (server.py 261-300); content is the list form
_ascii_box(lines, width, padding, bottom_connector, top_connector) ==
    LET inner_width == BoxInnerWidth(lines, width, padding)
        total_width == inner_width + 2 + (padding * 2)
        pad == Rep(<<" ">>, padding)
    IN <<BoxBorder("tl", "tr", "t_down", top_connector, total_width)>>
       \o [i \in 1..Len(lines) |->
              ASCII.v \o pad \o _ascii_center(lines[i], inner_width) \o pad \o ASCII.v]
       \o <<BoxBorder("bl", "br", "t_up", bottom_connector, total_width)>>

\* the text a box definition of a row holds (server.py 318)
BoxDefContent(box_def) == Get(box_def, "lines", <<Get(box_def, "text", << >>)>>)

\* a box of a row padded by blank interior lines right under its top border
PadBoxUnderTop(box, max_height) ==
    <<box[1]>>
    \o [k \in 1..(max_height - Len(box)) |->
           ASCII.v \o Rep(<<" ">>, Len(box[1]) - 2) \o ASCII.v]
    \o SubSeq(box, 2, Len(box))

\* a box of a row padded to max_height by blank interior lines inserted
\* just above its bottom border (server.py 326-328)
PadBoxTo(box, max_height) ==
    SubSeq(box, 1, Len(box) - 1)
    \o [k \in 1..(max_height - Len(box)) |->
           ASCII.v \o Rep(<<" ">>, Len(box[1]) - 2) \o ASCII.v]
    \o <<box[Len(box)]>>

\* the boxes of a row, rendered and padded (server.py 316-328)
RowRendered(boxes) ==
    LET rendered == [i \in 1..Len(boxes) |->
                        _ascii_box(BoxDefContent(boxes[i]), None, 1, FALSE, FALSE)]
        max_height == MaxOf({Len(rendered[i]) : i \in 1..Len(boxes)})
    IN [i \in 1..Len(boxes) |-> PadBoxTo(rendered[i], max_height)]

\* pos before box i of a row: the widths and spacings to its left (server.py 341-345)
RECURSIVE RowPos(_, _, _)
RowPos(rendered, spacing, i) ==
    IF i <= 1 THEN 0
    ELSE RowPos(rendered, spacing, i - 1) + Len(rendered[i - 1][1]) + spacing

\* box centers that leave the spacing out of the offsets
RowCentersUnspaced(rendered, spacing) ==
    [i \in 1..Len(rendered) |->
        RowPos(rendered, 0, i) + Len(rendered[i][1]) \div 2]

\* box_centers (server.py 340-345), 0-based columns
RowCenters(rendered, spacing) ==
    [i \in 1..Len(rendered) |->
        RowPos(rendered, spacing, i) + Len(rendered[i][1]) \div 2]

\* total_width of the merge lines (server.py 348)
RowTotalWidth(rendered, spacing) ==
    RowPos(rendered, spacing, Len(rendered) + 1) - spacing

\* merge lines with the junction halfway between the outer box centers
MergeLinesSpanMid(rendered, spacing) ==
    LET centers == RowCenters(rendered, spacing)
        total_width == RowTotalWidth(rendered, spacing)
        left_center == centers[1]
        right_center == centers[Len(centers)]
        mid == (left_center + right_center) \div 2
        line1 == [i \in 1..total_width |->
                     IF \E k \in 1..Len(centers) : centers[k] = i - 1
                     THEN ASCII.v[1] ELSE " "]
        line2 == [i \in 1..total_width |->
                     LET c == i - 1
                     IN IF c = mid THEN ASCII.t_down[1]
                        ELSE IF c = right_center THEN ASCII.br[1]
                        ELSE IF c = left_center THEN ASCII.bl[1]
                        ELSE IF left_center <= c /\ c <= right_center THEN ASCII.h[1]
                        ELSE " "]
        line3 == [i \in 1..total_width |-> IF i - 1 = mid THEN ASCII.v[1] ELSE " "]
    IN <<line1, line2, line3>>

\* merge lines with the junction under the center of the last box
MergeLinesAtRightCenter(rendered, spacing) ==
    LET centers == RowCenters(rendered, spacing)
        total_width == RowTotalWidth(rendered, spacing)
        left_center == centers[1]
        right_center == centers[Len(centers)]
        mid == right_center
        line1 == [i \in 1..total_width |->
                     IF \E k \in 1..Len(centers) : centers[k] = i - 1
                     THEN ASCII.v[1] ELSE " "]
        line2 == [i \in 1..total_width |->
                     LET c == i - 1
                     IN IF c = mid THEN ASCII.t_down[1]
                        ELSE IF c = left_center THEN ASCII.bl[1]
                        ELSE IF left_center <= c /\ c <= right_center THEN ASCII.h[1]
                        ELSE " "]
        line3 == [i \in 1..total_width |-> IF i - 1 = mid THEN ASCII.v[1] ELSE " "]
    IN <<line1, line2, line3>>

\* the three merge lines (server.py 350-376); c is a 0-based column
MergeLines(rendered, spacing) ==
    LET centers == RowCenters(rendered, spacing)
        total_width == RowTotalWidth(rendered, spacing)
        left_center == centers[1]
        right_center == centers[Len(centers)]
        mid == total_width \div 2
        line1 == [i \in 1..total_width |->
                     IF \E k \in 1..Len(centers) : centers[k] = i - 1
                     THEN ASCII.v[1] ELSE " "]
        line2 == [i \in 1..total_width |->
                     LET c == i - 1
                     IN IF c = mid THEN ASCII.t_down[1]
                        ELSE IF c = right_center THEN ASCII.br[1]
                        ELSE IF c = left_center THEN ASCII.bl[1]
                        ELSE IF left_center <= c /\ c <= right_center THEN ASCII.h[1]
                        ELSE " "]
        line3 == [i \in 1..total_width |-> IF i - 1 = mid THEN ASCII.v[1] ELSE " "]
    IN <<line1, line2, line3>>

\* _ascii_box_row (server.py 303-378) for a non-empty list of boxes
_ascii_box_row(boxes, spacing, merge_bottom) ==
    LET rendered == RowRendered(boxes)
        max_height == Len(rendered[1])
        spacer == Rep(<<" ">>, spacing)
        rows == [r \in 1..max_height |->
                    Join(spacer, [i \in 1..Len(rendered) |-> rendered[i][r]])]
    IN IF merge_bottom /\ Len(rendered) > 1
       THEN rows \o MergeLines(rendered, spacing)
       ELSE rows

\* _ascii_title_box (server.py 381-388)
_ascii_title_box(title, width) ==
    LET inner == width - 2
    IN <<ASCII.tl \o Rep(ASCII.h, inner) \o ASCII.tr,
         ASCII.v \o _ascii_center(title, inner) \o ASCII.v,
         ASCII.bl \o Rep(ASCII.h, inner) \o ASCII.br>>

\* a content line padded to the inner width but never cut
FramePaddedOnly(line, inner_width) ==
    line \o Rep(<<" ">>, inner_width - Len(line))

\* one content line of _ascii_frame, padded or truncated (server.py 422-426)
FramePadded(line, inner_width) ==
    IF Len(line) < inner_width
    THEN line \o Rep(<<" ">>, inner_width - Len(line))
    ELSE SliceTo(line, inner_width)

\* _ascii_frame (server.py 391-435)
_ascii_frame(content_lines, width, padding, dashed) ==
    LET inner_width == width - 4
        border == IF dashed
                  THEN SliceTo(Rep(ASCII.h \o <<" ">>, (inner_width + 2) \div 2),
                               inner_width + 2)
                  ELSE Rep(ASCII.h, inner_width + 2)
        blank == ASCII.v \o Rep(<<" ">>, inner_width + 2) \o ASCII.v
    IN <<ASCII.tl \o border \o ASCII.tr>>
       \o [k \in 1..padding |-> blank]
       \o [i \in 1..Len(content_lines) |->
              ASCII.v \o <<" ">> \o FramePadded(content_lines[i], inner_width)
                  \o <<" ">> \o ASCII.v]
       \o [k \in 1..padding |-> blank]
       \o <<ASCII.bl \o border \o ASCII.br>>

\* _ascii_comment (server.py 438-440)
_ascii_comment(text) ==
    <<" ", " ">> \o ASCII.arrow_l \o ASCII.h \o ASCII.h \o <<" ">> \o text

\* an arrow whose shaft alone has the given length
ArrowWithFullShaft(direction, length) ==
    IF direction = "right" THEN Rep(ASCII.h, length) \o ASCII.arrow_r
    ELSE IF direction = "left" THEN ASCII.arrow_l \o Rep(ASCII.h, length)
    ELSE IF direction = "down" THEN ASCII.v
    ELSE IF direction = "up" THEN ASCII.v
    ELSE Rep(ASCII.h, length)

\* _ascii_arrow (server.py 443-453)
_ascii_arrow(direction, length) ==
    IF direction = "right" THEN Rep(ASCII.h, length - 1) \o ASCII.arrow_r
    ELSE IF direction = "left" THEN ASCII.arrow_l \o Rep(ASCII.h, length - 1)
    ELSE IF direction = "down" THEN ASCII.v
    ELSE IF direction = "up" THEN ASCII.v
    ELSE Rep(ASCII.h, length)

(***************************************************************************)
(* Chart renderers                                                         *)
(***************************************************************************)
\* ratio of _ascii_progress_bar (server.py 646)
ProgressRatio(value, max_value) ==
    IF max_value > 0 THEN F64Min(F64Div(value, max_value), F64Of(1)) ELSE F64Zero

\* filled of _ascii_progress_bar (server.py 647)
ProgressFilled(value, max_value, width) ==
    F64Int(F64Mul(ProgressRatio(value, max_value), F64Of(width)))

\* _ascii_progress_bar (server.py 633-654)
_ascii_progress_bar(value, max_value, width, show_percent) ==
    LET ratio == ProgressRatio(value, max_value)
        filled == ProgressFilled(value, max_value, width)
        empty == width - filled
        bar == <<"[">> \o Rep(<<CHART_BLOCKS[1]>>, filled)
                   \o Rep(LIGHT_SHADE, empty) \o <<"]">>
    IN IF show_percent
       THEN bar \o <<" ">> \o FormatF0(F64Mul(ratio, F64Of(100))) \o <<"%">>
       ELSE bar

\* the digits ds with a comma before every group of three, as the format
\* option "," writes them
RECURSIVE Grouped(_)
Grouped(ds) ==
    IF Len(ds) <= 3 THEN ds
    ELSE Grouped(SubSeq(ds, 1, Len(ds) - 3)) \o <<",">>
             \o SubSeq(ds, Len(ds) - 2, Len(ds))

\* f"{value:,.0f}" for an integer value
FormatComma0(value) ==
    IF value < 0 THEN <<"-">> \o Grouped(Digits(-value)) ELSE Grouped(Digits(value))

\* total_eighths of _ascii_bar (server.py 472-473), max_value > 0
BarEighths(value, max_value, bar_width) ==
    LET ratio == F64Min(F64Div(value, max_value), F64Of(1))
    IN F64Int(F64Mul(F64Mul(ratio, F64Of(bar_width)), F64Of(8)))

\* _ascii_bar (server.py 456-482)
_ascii_bar(value, max_value, bar_width) ==
    IF max_value <= 0 \/ value <= 0 THEN << >>
    ELSE LET total_eighths == BarEighths(value, max_value, bar_width)
             full_blocks == total_eighths \div 8
             remainder == total_eighths % 8
             bar == Rep(<<CHART_BLOCKS[1]>>, full_blocks)
         IN IF remainder > 0 THEN bar \o <<CHART_BLOCKS[8 - remainder + 1]>>
            ELSE bar

\* f"{label:<{label_width}}": padded on the right, never cut
LabelField(label, label_width) ==
    label \o Rep(<<" ">>, label_width - Len(label))

\* label_width of _ascii_bar_chart (server.py 507-508)
ChartLabelWidth(data, label_width) ==
    IF label_width = None THEN MaxOf({Len(data[i][1]) : i \in 1..Len(data)})
    ELSE label_width[1]

\* one line of _ascii_bar_chart (server.py 511-516), integer value
ChartLine(label, value, max_value, bar_width, show_values, label_width) ==
    LET line == LabelField(label, label_width) \o <<" ">> \o ASCII.v
                    \o _ascii_bar(value, max_value, bar_width)
    IN IF show_values THEN line \o <<" ">> \o FormatComma0(value) ELSE line

\* _ascii_bar_chart (server.py 485-518)
_ascii_bar_chart(data, bar_width, show_values, label_width) ==
    IF Len(data) = 0 THEN << >>
    ELSE LET max_value == MaxOf({data[i][2] : i \in 1..Len(data)})
             lw == ChartLabelWidth(data, label_width)
         IN [i \in 1..Len(data) |->
                ChartLine(data[i][1], data[i][2], max_value, bar_width,
                          show_values, lw)]

\* s.center(w) of a str: never cut; of an odd number of blanks the extra
\* one goes left when w is odd, right when w is even
StrCenter(s, w) ==
    LET marg == w - Len(s)
        left == marg \div 2 + (IF marg % 2 = 1 /\ w % 2 = 1 THEN 1 ELSE 0)
    IN IF marg <= 0 THEN s
       ELSE Rep(<<" ">>, left) \o s \o Rep(<<" ">>, marg - left)

\* s.rstrip(): without its trailing whitespace
RStrip(s) ==
    LET keep == {k \in 1..Len(s) : s[k] \notin {" ", "\t", "\n", "\r"}}
    IN IF keep = {} THEN << >> ELSE SubSeq(s, 1, MaxOf(keep))

\* max_value of _ascii_bar_chart_vertical (server.py 543-545)
VChartMax(data) ==
    LET max_value == MaxOf({data[i][2] : i \in 1..Len(data)})
    IN IF max_value <= 0 THEN 1 ELSE max_value

\* total_eighths of one bar of _ascii_bar_chart_vertical (server.py 550-551)
VBarEighths(value, max_value, bar_height) ==
    F64Int(F64Mul(F64Mul(F64Div(value, max_value), F64Of(bar_height)), F64Of(8)))

\* what a bar of the given eighths shows in a row (server.py 572-583)
VChartCell(eighths, row, bar_width) ==
    IF eighths >= row * 8 THEN Rep(<<CHART_BLOCKS[1]>>, bar_width)
    ELSE IF eighths > (row - 1) * 8
         THEN Rep(<<SPARKLINE_CHARS[eighths - (row - 1) * 8]>>, bar_width)
    ELSE Rep(<<" ">>, bar_width)

\* parts[i] + " " * gap for every i, concatenated and stripped on the right
\* (server.py 560-565, 584-586, 594-599)
VChartRow(parts, gap) ==
    RStrip(Flatten([i \in 1..Len(parts) |-> parts[i] \o Rep(<<" ">>, gap)]))

\* _ascii_bar_chart_vertical (server.py 521-601), integer values
_ascii_bar_chart_vertical(data, bar_height, bar_width, show_values, gap) ==
    IF Len(data) = 0 THEN << >>
    ELSE LET max_value == VChartMax(data)
             bar_heights == [i \in 1..Len(data) |->
                                VBarEighths(data[i][2], max_value, bar_height)]
             value_lines ==
                 IF show_values
                 THEN <<VChartRow([i \in 1..Len(data) |->
                                      StrCenter(FormatComma0(data[i][2]), bar_width)],
                                  gap),
                        << >>>>
                 ELSE << >>
             bars == [k \in 1..bar_height |->
                         VChartRow([i \in 1..Len(data) |->
                                       VChartCell(bar_heights[i], bar_height - k + 1,
                                                  bar_width)],
                                   gap)]
             total_width == Len(data) * (bar_width + gap) - gap
             label_line ==
                 VChartRow([i \in 1..Len(data) |->
                               StrCenter(SliceTo(data[i][1], bar_width), bar_width)],
                           gap)
         IN value_lines \o bars \o <<Rep(<<"U2500">>, total_width)>> \o <<label_line>>

\* a ramp index that wraps around instead of being clamped
SparkIndexWrapped(v, min_val, max_val) ==
    F64Int(F64Mul(F64Div(v - min_val, max_val - min_val), F64Of(8))) % 8

\* the ramp index of one value of _ascii_sparkline (server.py 626-627)
SparkIndex(v, min_val, max_val) ==
    Max2(0, Min2(7, F64Int(F64Mul(F64Div(v - min_val, max_val - min_val), F64Of(7)))))

\* a sparkline that draws a constant series at the bottom of the ramp
SparklineFlatLow(values) ==
    [i \in 1..Len(values) |-> SPARKLINE_CHARS[1]]

\* _ascii_sparkline (server.py 604-630)
_ascii_sparkline(values) ==
    IF Len(values) = 0 THEN << >>
    ELSE LET vs == {values[i] : i \in 1..Len(values)}
             max_val == MaxOf(vs)
             min_val == CHOOSE m \in vs : \A k \in vs : m <= k
         IN IF max_val = min_val
            THEN Rep(<<SPARKLINE_CHARS[5]>>, Len(values))
            ELSE [i \in 1..Len(values) |->
                     SPARKLINE_CHARS[SparkIndex(values[i], min_val, max_val) + 1]]

(***************************************************************************)
(* Gradient shader                                                         *)
(***************************************************************************)
\* _ascii_shade_value (server.py 657-691)
_ascii_shade_value(x, y, width, height, direction) ==
    LET center_x == F64Div(width, 2)
        center_y == F64Div(height, 2)
        dx == IF F64Lt(F64Zero, center_x)
              THEN F64Quot(F64Sub(F64Of(x), center_x), center_x) ELSE F64Zero
        dy == IF F64Lt(F64Zero, center_y)
              THEN F64Quot(F64Sub(F64Of(y), center_y), center_y) ELSE F64Zero
        dist == F64Sqrt(F64Add(F64Mul(dx, dx), F64Mul(dy, dy)))
    IN IF width <= 0 \/ height <= 0 THEN F64Div(1, 2)
       ELSE IF direction = "horizontal" THEN F64Div(x, width)
       ELSE IF direction = "vertical" THEN F64Div(y, height)
       ELSE IF direction = "radial" THEN F64Min(dist, F64Of(1))
       ELSE IF direction = "diagonal" THEN F64Div(x + y, width + height)
       ELSE IF direction = "diagonal_reverse"
            THEN F64Div(width - x + y, width + height)
       ELSE F64Div(1, 2)

\* result of _ascii_apply_contrast before the clamp (server.py 705-715)
ContrastRaw(value, contrast) ==
    LET half == F64Div(1, 2)
        range_compress == F64Mul(contrast, F64Of(2))
        range_expand == F64Add(F64Mul(F64Sub(contrast, half), F64Of(2)), F64Of(1))
    IN IF F64Lt(contrast, half)
       THEN F64Add(half, F64Mul(F64Sub(value, half), range_compress))
       ELSE IF F64Lt(value, half)
            THEN F64Sub(half, F64Mul(F64Sub(half, value), range_expand))
            ELSE F64Add(half, F64Mul(F64Sub(value, half), range_expand))

\* a contrast curve that returns its result unclamped
ContrastUnclamped(value, contrast) == ContrastRaw(value, contrast)

\* _ascii_apply_contrast (server.py 694-717)
_ascii_apply_contrast(value, contrast) ==
    F64Max(F64Zero, F64Min(F64Of(1), ContrastRaw(value, contrast)))

\* shade of the cell (x, y) after the contrast curve (server.py 766-767);
\* contrast is the float contrast[1] / contrast[2]
CellShade(x, y, inner_width, inner_height, direction, contrast) ==
    Eager2(_ascii_apply_contrast,
           _ascii_shade_value(x, y, inner_width, inner_height, direction),
           F64Div(contrast[1], contrast[2]))

\* char_idx before the clamp of line 769 (server.py 768)
CellIndexRaw(shade, n_chars) == F64Int(F64Mul(shade, F64Of(n_chars - 1)))

\* char_idx of the cell (server.py 768-769)
CellIndex(shade, n_chars) ==
    Max2(0, Min2(CellIndexRaw(shade, n_chars), n_chars - 1))

\* the top border of _ascii_shaded_box (server.py 751-759); title is optional
ShadedTop(chars, inner_width, title) ==
    IF title # None /\ TruthySeq(title[1])
    THEN LET title_display == <<" ">> \o title[1] \o <<" ">>
             title_len == Len(title_display)
             left_pad == (inner_width - title_len) \div 2
             right_pad == inner_width - title_len - left_pad
         IN chars.tl \o Rep(chars.h, left_pad) \o title_display
                \o Rep(chars.h, right_pad) \o chars.tr
    ELSE chars.tl \o Rep(chars.h, inner_width) \o chars.tr

\* _ascii_shaded_box (server.py 720-778)
_ascii_shaded_box(width, height, title, palette, direction, contrast, box_style) ==
    LET chars == Get(BOX_STYLES, box_style, BOX_STYLES.light)
        shade_chars == Get(SHADING_PALETTES, palette, SHADING_PALETTES.blocks)
        inner_width == width - 2
        inner_height == height - 2
    IN <<ShadedTop(chars, inner_width, title)>>
       \o [r \in 1..inner_height |->
              chars.v
              \o [c \in 1..inner_width |->
                     Eager1(LAMBDA shade :
                                shade_chars[CellIndex(shade, Len(shade_chars)) + 1],
                            CellShade(c - 1, r - 1, inner_width, inner_height,
                                      direction, contrast))]
              \o chars.v]
       \o <<chars.bl \o Rep(chars.h, inner_width) \o chars.br>>

(***************************************************************************)
(* Table renderer                                                          *)
(***************************************************************************)
\* s.ljust(w)
LJust(s, w) == s \o Rep(<<" ">>, w - Len(s))

\* column widths taken from the headers alone
TableColWidthsOfHeaders(headers, rows) ==
    [i \in 1..Len(headers) |-> Len(headers[i])]

\* col_widths of _ascii_table (server.py 800-804)
TableColWidths(headers, rows) ==
    [i \in 1..Len(headers) |->
        MaxOf({Len(headers[i])}
              \cup {Len(rows[r][i]) : r \in {k \in 1..Len(rows) : i <= Len(rows[k])}})]

\* a horizontal rule of _ascii_table (server.py 809-812, 822-825, 837-840)
TableRule(chars, col_widths, left, mid, right) ==
    chars[left]
    \o Flatten([i \in 1..Len(col_widths) |->
                   Rep(chars.h, col_widths[i] + 2)
                   \o (IF i < Len(col_widths) THEN chars[mid] ELSE chars[right])])

\* a header or data row of _ascii_table (server.py 816-818, 830-833)
TableRow(chars, col_widths, cells) ==
    chars.v
    \o Flatten([i \in 1..Min2(Len(cells), Len(col_widths)) |->
                   <<" ">> \o LJust(cells[i], col_widths[i]) \o <<" ">> \o chars.v])

\* _ascii_table (server.py 781-843)
_ascii_table(headers, rows, box_style) ==
    LET chars == Get(BOX_STYLES, box_style, BOX_STYLES.light)
        col_widths == TableColWidths(headers, rows)
    IN <<TableRule(chars, col_widths, "tl", "t_down", "tr"),
         TableRow(chars, col_widths, headers),
         TableRule(chars, col_widths, "t_right", "cross", "t_left")>>
       \o [r \in 1..Len(rows) |-> TableRow(chars, col_widths, rows[r])]
       \o <<TableRule(chars, col_widths, "bl", "t_up", "br")>>

(***************************************************************************)
(* Layout engine: what one element of _ascii_diagram appends               *)
(***************************************************************************)
\* t of an element (server.py 879)
ElemType(elem) == Get(elem, "type", "text")

\* indent of an element (server.py 880-881)
ElemIndent(elem) == Rep(<<" ">>, Get(elem, "x", 0))

\* comment_str of an element (server.py 882-883)
ElemComment(elem) ==
    IF TruthySeq(Get(elem, "comment", << >>))
    THEN _ascii_comment(elem.comment) ELSE << >>

\* elem.get(k) of an optional field: None when absent
GetOpt(elem, k) == IF k \in DOMAIN elem THEN Some(elem[k]) ELSE None

\* a lookahead that takes every element pointing down, or naming no
\* direction, for a down arrow, whatever its type
NextPointsDown(elements, i) ==
    /\ i + 1 <= Len(elements)
    /\ Get(elements[i + 1], "direction", "down") = "down"

\* a lookahead that takes an arrow of any direction for a down arrow
NextIsArrow(elements, i) ==
    /\ i + 1 <= Len(elements)
    /\ "type" \in DOMAIN elements[i + 1]
    /\ elements[i + 1].type = "arrow"

\* the lookahead of the box branch (server.py 912-915)
NextIsDownArrow(elements, i) ==
    /\ i + 1 <= Len(elements)
    /\ "type" \in DOMAIN elements[i + 1]
    /\ elements[i + 1].type = "arrow"
    /\ Get(elements[i + 1], "direction", "down") = "down"

\* bottom_conn of the box branch (server.py 908, 912-915)
BoxBottomConn(elements, i) ==
    IF NextIsDownArrow(elements, i) THEN TRUE
    ELSE Get(elements[i], "bottom_connector", FALSE)

\* a top connector also attached below a down arrow
BoxTopConnAuto(elements, i) ==
    \/ Get(elements[i], "top_connector", FALSE)
    \/ /\ i > 1
       /\ Get(elements[i - 1], "type", "text") = "arrow"
       /\ Get(elements[i - 1], "direction", "down") = "down"

\* top_conn of the box branch (server.py 909, 917)
BoxTopConn(elements, i) == Get(elements[i], "top_connector", FALSE)

\* box_lines of the box branch (server.py 904-905, 919)
DiagramBoxLines(elements, i) ==
    LET elem == elements[i]
    IN _ascii_box(Get(elem, "lines", <<Get(elem, "text", << >>)>>),
                  GetOpt(elem, "width"), 1,
                  BoxBottomConn(elements, i), BoxTopConn(elements, i))

\* center_offset of the box branch (server.py 922-925)
BoxCenterOffset(x, actual_box_width, inner_width) ==
    LET center_pos == inner_width \div 2
    IN Max2(0, IF x = 0 /\ actual_box_width < inner_width
               THEN center_pos - actual_box_width \div 2 ELSE 0)

\* a box branch in which a box right under another box leaves out its top
\* border
LinesBoxStacked(elements, i, inner_width) ==
    LET elem == elements[i]
        x == Get(elem, "x", 0)
        comment_str == ElemComment(elem)
        box_lines == DiagramBoxLines(elements, i)
        middle_idx == Len(box_lines) \div 2
        center_indent ==
            Rep(<<" ">>, BoxCenterOffset(x, Len(box_lines[1]), inner_width))
        full == [k \in 1..Len(box_lines) |->
                    (IF x = 0 THEN center_indent ELSE ElemIndent(elem)) \o box_lines[k]
                    \o (IF TruthySeq(comment_str) /\ k - 1 = middle_idx
                        THEN comment_str ELSE << >>)]
    IN IF i > 1 /\ Get(elements[i - 1], "type", "text") = "box"
       THEN Tail(full) ELSE full

\* a box branch that puts the comment on the line above the middle one
LinesBoxCommentAbove(elements, i, inner_width) ==
    LET elem == elements[i]
        x == Get(elem, "x", 0)
        comment_str == ElemComment(elem)
        box_lines == DiagramBoxLines(elements, i)
        middle_idx == (Len(box_lines) - 1) \div 2
        center_indent ==
            Rep(<<" ">>, BoxCenterOffset(x, Len(box_lines[1]), inner_width))
    IN [k \in 1..Len(box_lines) |->
           (IF x = 0 THEN center_indent ELSE ElemIndent(elem)) \o box_lines[k]
           \o (IF TruthySeq(comment_str) /\ k - 1 = middle_idx
               THEN comment_str ELSE << >>)]

\* the box branch (server.py 903-931)
LinesBox(elements, i, inner_width) ==
    LET elem == elements[i]
        x == Get(elem, "x", 0)
        comment_str == ElemComment(elem)
        box_lines == DiagramBoxLines(elements, i)
        middle_idx == Len(box_lines) \div 2
        center_indent ==
            Rep(<<" ">>, BoxCenterOffset(x, Len(box_lines[1]), inner_width))
    IN [k \in 1..Len(box_lines) |->
           (IF x = 0 THEN center_indent ELSE ElemIndent(elem)) \o box_lines[k]
           \o (IF TruthySeq(comment_str) /\ k - 1 = middle_idx
               THEN comment_str ELSE << >>)]

\* the indent of a vertical arrow (server.py 949-952, 961)
ArrowIndent(elem, inner_width) ==
    IF Get(elem, "x", 0) = 0 THEN Rep(<<" ">>, inner_width \div 2)
    ELSE ElemIndent(elem)

\* the arrow branch (server.py 942-971)
LinesArrow(elem, inner_width) ==
    LET direction == Get(elem, "direction", "down")
        length == Get(elem, "length", 1)
        ind == ArrowIndent(elem, inner_width)
        shaft == [k \in 1..length |-> ind \o ASCII.v]
    IN IF direction = "down" THEN shaft \o <<ind \o ASCII.arrow_d>>
       ELSE IF direction = "up" THEN <<ind \o ASCII.arrow_u>> \o shaft
       ELSE <<ElemIndent(elem) \o _ascii_arrow(direction, Get(elem, "length", 8))>>

\* the title branch (server.py 885-887); elem["text"] must exist
LinesTitle(elem, inner_width) == _ascii_title_box(elem.text, inner_width)

\* row_offset of the row branch (server.py 897-898)
RowOffset(row_width, inner_width) ==
    IF row_width < inner_width THEN (inner_width - row_width) \div 2 ELSE 0

\* the row branch (server.py 889-901); boxes must be non-empty
LinesRow(elem, inner_width) ==
    LET row_lines == _ascii_box_row(Get(elem, "boxes", << >>),
                                    Get(elem, "spacing", 4), Get(elem, "merge", FALSE))
        row_indent == Rep(<<" ">>, RowOffset(Len(row_lines[1]), inner_width))
    IN [k \in 1..Len(row_lines) |-> row_indent \o row_lines[k]]

\* the text branch (server.py 936-940)
LinesText(elem) ==
    <<ElemIndent(elem) \o Get(elem, "text", << >>) \o ElemComment(elem)>>

\* label prefix of the sparkline and progress branches (server.py 996, 1008)
LabelPrefix(elem) ==
    IF TruthySeq(Get(elem, "label", << >>)) THEN elem.label \o <<" ">> ELSE << >>

\* the sparkline branch (server.py 992-999)
LinesSparkline(elem) ==
    <<ElemIndent(elem) \o LabelPrefix(elem)
          \o _ascii_sparkline(Get(elem, "data", << >>)) \o ElemComment(elem)>>

\* the progress branch (server.py 1001-1011)
LinesProgress(elem) ==
    <<ElemIndent(elem) \o LabelPrefix(elem)
          \o _ascii_progress_bar(Get(elem, "value", 0), Get(elem, "max", 100),
                                 Get(elem, "width", 20), Get(elem, "show_percent", TRUE))
          \o ElemComment(elem)>>

\* every line of a list indented (server.py 979-980, 1022-1023, 1030-1031)
Indented(elem, lines) == [k \in 1..Len(lines) |-> ElemIndent(elem) \o lines[k]]

\* the bar_chart branch (server.py 973-980)
LinesBarChart(elem) ==
    Indented(elem, _ascii_bar_chart(Get(elem, "data", << >>),
                                    Get(elem, "bar_width", 20),
                                    Get(elem, "show_values", TRUE),
                                    GetOpt(elem, "label_width")))

\* the bar_chart_vertical branch (server.py 982-990)
LinesBarChartVertical(elem) ==
    Indented(elem, _ascii_bar_chart_vertical(Get(elem, "data", << >>),
                                             Get(elem, "bar_height", 10),
                                             Get(elem, "bar_width", 5),
                                             Get(elem, "show_values", TRUE),
                                             Get(elem, "gap", 2)))

\* the shaded_box branch (server.py 1013-1023)
LinesShadedBox(elem) ==
    Indented(elem,
             _ascii_shaded_box(Get(elem, "width", 40), Get(elem, "height", 10),
                               GetOpt(elem, "title"), Get(elem, "palette", "blocks"),
                               Get(elem, "direction", "radial"),
                               Get(elem, "contrast", <<7, 10>>),
                               Get(elem, "box_style", "light")))

\* the table branch (server.py 1025-1031)
LinesTable(elem) ==
    Indented(elem, _ascii_table(Get(elem, "headers", << >>), Get(elem, "rows", << >>),
                                Get(elem, "box_style", "light")))

\* the types the if/elif chain of _ascii_diagram has a branch for (server.py 885-1025)
BranchTypes ==
    {"title", "row", "box", "spacer", "text", "arrow", "bar_chart",
     "bar_chart_vertical", "sparkline", "progress", "shaded_box", "table"}

\* the lines one pass of the loop appends for the element at position i
\* (server.py 878-1031)
ElemLines(elements, i, inner_width) ==
    LET elem == elements[i]
        t == ElemType(elem)
    IN CASE t = "title" -> LinesTitle(elem, inner_width)
         [] t = "row" -> LinesRow(elem, inner_width)
         [] t = "box" -> LinesBox(elements, i, inner_width)
         [] t = "spacer" -> <<<< >>>>
         [] t = "text" -> LinesText(elem)
         [] t = "arrow" -> LinesArrow(elem, inner_width)
         [] t = "bar_chart" -> LinesBarChart(elem)
         [] t = "bar_chart_vertical" -> LinesBarChartVertical(elem)
         [] t = "sparkline" -> LinesSparkline(elem)
         [] t = "progress" -> LinesProgress(elem)
         [] t = "shaded_box" -> LinesShadedBox(elem)
         [] t = "table" -> LinesTable(elem)
         [] t \notin BranchTypes -> << >>

\* result at the end of the loop over the elements (server.py 875-1031)
DiagramResult(elements, inner_width) ==
    Flatten([i \in 1..Len(elements) |-> ElemLines(elements, i, inner_width)])

\* _ascii_box raises ValueError: max() of no lines, which is evaluated only
\* when width is falsy (server.py 277)
BoxRaises(lines, width) == Len(lines) = 0 /\ ~TruthyInt(width)

\* _ascii_box_row raises ValueError: a box of the row does (server.py
\* 318-319), or max() of no boxes (server.py 323)
BoxRowRaises(boxes) ==
    \/ Len(boxes) = 0
    \/ \E i \in 1..Len(boxes) : BoxRaises(BoxDefContent(boxes[i]), None)

\* the exception an element raises inside _ascii_diagram, "" when none:
\* elem["text"] of a title (server.py 886), the row of a row element
\* (server.py 893), the box of a box element (server.py 919)
ElemRaises(elem) ==
    IF ElemType(elem) = "title" /\ "text" \notin DOMAIN elem THEN "KeyError"
    ELSE IF ElemType(elem) = "row" /\ BoxRowRaises(Get(elem, "boxes", << >>))
         THEN "ValueError"
    ELSE IF /\ ElemType(elem) = "box"
            /\ BoxRaises(Get(elem, "lines", <<Get(elem, "text", << >>)>>),
                         GetOpt(elem, "width"))
         THEN "ValueError"
    ELSE ""

\* text.split("\n")
RECURSIVE SplitLines(_)
SplitLines(text) ==
    IF \A k \in 1..Len(text) : text[k] # "\n" THEN <<text>>
    ELSE LET p == CHOOSE k \in 1..Len(text) :
                      text[k] = "\n" /\ \A j \in 1..(k - 1) : text[j] # "\n"
         IN <<SubSeq(text, 1, p - 1)>> \o SplitLines(SubSeq(text, p + 1, Len(text)))

(***************************************************************************)
(* Bounds and input domains                                                *)
(***************************************************************************)
MaxTextLen == 3

MaxLines == 2

MaxBoxWidth == 8

MaxPad == 2

MaxElems == 3

MaxArrowLen == 3

\* caller-supplied texts: the prefixes of "Hey!?x" up to MaxTextLen
SampleText == <<"H", "e", "y", "!", "?", "x">>

Texts == {SubSeq(SampleText, 1, n) : n \in 0..Min2(MaxTextLen, Len(SampleText))}

\* a text of even and a text of odd length
TextEven == <<"H", "i">>

TextOdd == <<"H", "e", "y">>

\* non-empty lists of at most n texts
LinesUpTo(n) == UNION {[1..k -> Texts] : k \in 1..n}

\* lists of at most n members of S
ListsUpTo(S, n) == UNION {[1..k -> S] : k \in 0..n}

OptWidths == {None} \cup {Some(w) : w \in 0..MaxBoxWidth}

BoxArgs ==
    [lines : LinesUpTo(MaxLines), width : OptWidths, padding : 0..MaxPad,
     bottom_connector : BOOLEAN, top_connector : BOOLEAN]

\* the dict e with the key k set to v
With(e, k, v) == [f \in DOMAIN e \cup {k} |-> IF f = k THEN v ELSE e[f]]

\* the dicts of E, each also with the key k set to each value of V
WithEach(E, k, V) == E \cup {With(e, k, v) : e \in E, v \in V}

\* total widths of a diagram: narrower than a box, even, odd
DiagramWidths == {5, 12, 13}

\* box elements: every combination of the connector flags on the even text,
\* and the odd text
ConnBoxes ==
    WithEach(WithEach({[type |-> "box", text |-> TextEven]},
                      "bottom_connector", BOOLEAN),
             "top_connector", {TRUE})
    \cup {[type |-> "box", text |-> TextOdd]}

\* arrow elements: no direction, down, up and a horizontal one
ConnArrows == WithEach({[type |-> "arrow"]}, "direction", {"down", "up", "right"})

ConnElems == ConnBoxes \cup ConnArrows \cup {[type |-> "spacer"]}

\* arrow elements of every direction, length and indent
ArrowElems ==
    WithEach(WithEach(WithEach({[type |-> "arrow"]}, "direction",
                               {"down", "up", "left", "right", "across"}),
                      "length", 0..MaxArrowLen),
             "x", {0, 2})

MaxProgressValue == 9

MaxProgressWidth == 8

\* max_value of a progress bar: negative, zero, small, and the default 100
ProgressMaxes == {-2, 0, 1, 3, 4, 8, 100}

\* value of a progress bar: negative, zero, within and above the maxima
ProgressValues == (-3..MaxProgressValue) \cup {50, 100, 150}

\* calls whose ratio or whose ratio * width is rounded by the float
\* arithmetic: 15 / 22 * 22 and 0.29 * 100 fall just below an integer
ProgressInexact ==
    [value : {15, 29, 57, 58}, max_value : {22, 100}, width : {22, 50, 100},
     show_percent : BOOLEAN]

ProgressArgs ==
    [value : ProgressValues, max_value : ProgressMaxes,
     width : 0..MaxProgressWidth, show_percent : BOOLEAN] \cup ProgressInexact

MaxBarValue == 8

MaxBarWidth == 8

\* value and max_value of a bar: negative, zero, small, and 50 and 100
BarValues == (-1..MaxBarValue) \cup {50, 100}

\* bars whose ratio * bar_width * 8 is rounded by the float arithmetic:
\* 15 / 22 * 11 * 8 and 0.29 * 25 * 8 fall just below an integer
BarInexact == [value : {15, 29, 57, 58}, max_value : {22, 100}, bar_width : {11, 25}]

BarArgs ==
    [value : BarValues, max_value : BarValues, bar_width : 0..MaxBarWidth]
        \cup BarInexact

\* the (label, value) tuples of a chart; 1500 is written with a comma
ChartPairs == Texts \X {-1, 0, 1, 3, 50, 100, 1500}

\* label_width: absent, shorter than some label, longer than every label
ChartLabelWidths == {None, Some(0), Some(2), Some(5)}

\* a chart whose first bar is 15 / 22 of the longest
ChartInexact ==
    [data : {<<<<TextEven, 15>>, <<TextOdd, 22>>>>}, bar_width : {11},
     show_values : BOOLEAN, label_width : {None}]

ChartArgs ==
    [data : ListsUpTo(ChartPairs, 2), bar_width : 0..MaxBarWidth,
     show_values : BOOLEAN, label_width : ChartLabelWidths] \cup ChartInexact

\* vertical charts of at most two bars: labels shorter and longer than a
\* bar, values negative, zero, a third of and above a thousand, heights and
\* widths from none, gaps from none
VChartArgs ==
    [data : ListsUpTo({<< >>, TextEven, SampleText} \X {-1, 0, 1, 3, 1500}, 2),
     bar_height : 0..3, bar_width : {0, 1, 4}, show_values : BOOLEAN,
     gap : {0, 2}]

MaxSparkLen == 4

MaxSparkValue == 4

\* series of at most MaxSparkLen integers, negative ones included
SparkArgs == [values : ListsUpTo(-2..MaxSparkValue, MaxSparkLen)]

MaxCols == 2

MaxRows == 2

\* header lists: the first columns of a sample header row
SampleHeaders == <<<<"A">>, <<"B", "B">>, <<"C">>, <<"D", "D", "D", "D">>>>

TableHeaders ==
    {SubSeq(SampleHeaders, 1, n) : n \in 0..Min2(MaxCols, Len(SampleHeaders))}

\* cells: one shorter and one longer than the first headers
TableCells == {<< >>, <<"y", "y", "y">>}

\* at most MaxRows rows of at most MaxCols + 1 cells: rows shorter and rows
\* longer than the header list
TableArgs ==
    [headers : TableHeaders,
     rows : ListsUpTo(ListsUpTo(TableCells, MaxCols + 1), MaxRows),
     box_style : {"light", "double"}]

\* elements of a type the if/elif chain has no branch for, among them the
\* "line" element of the docstring, and elements around them
UnknownElems ==
    {[type |-> "line", text |-> TextOdd],
     [type |-> "circle"],
     [type |-> "circle", direction |-> "down", x |-> 2, comment |-> TextEven]}

\* a horizontal and a vertical bar chart
ChartElems ==
    {[type |-> "bar_chart", data |-> <<<<TextEven, 3>>, <<TextOdd, 1>>>>,
      bar_width |-> 4],
     [type |-> "bar_chart_vertical", data |-> <<<<TextEven, 3>>, <<TextOdd, 1>>>>,
      bar_height |-> 2, bar_width |-> 1, x |-> 2]}

UnknownMixElems ==
    UnknownElems
    \cup {[type |-> "box", text |-> TextEven], [type |-> "arrow"],
          [type |-> "text", text |-> TextEven]}
    \cup ChartElems

\* texts and widths of _ascii_center: every prefix of the sample text, and
\* widths below, at and above their lengths
CenterArgs ==
    [text : {SubSeq(SampleText, 1, n) : n \in 0..Len(SampleText)},
     width : -1..MaxBoxWidth]

\* content of framed diagrams: a short and a long text, an empty line, a title
FrameElems ==
    {[type |-> "text", text |-> TextEven], [type |-> "text", text |-> SampleText],
     [type |-> "spacer"], [type |-> "title", text |-> TextOdd]}

\* total widths of framed diagrams: no room, odd and even inner widths
FrameWidths == {4, 5, 9, 10}

MaxRowBoxes == 3

MaxSpacing == 2

\* box definitions of a row: an empty, an even and an odd text, and boxes of
\* two and three lines
RowBoxDefs ==
    {[text |-> << >>], [text |-> TextEven], [text |-> TextOdd],
     [lines |-> <<TextOdd, TextEven>>],
     [lines |-> <<TextEven, << >>, TextOdd>>]}

\* non-empty rows, spacings from none to the default 4
RowArgs ==
    [boxes : ListsUpTo(RowBoxDefs, MaxRowBoxes) \ {<< >>},
     spacing : (0..MaxSpacing) \cup {4}, merge_bottom : BOOLEAN]

\* boxes of one to four content lines with a comment, merged rows of an odd
\* and of an even width, a down arrow and a text
FlowElems ==
    {[type |-> "box", text |-> TextEven, comment |-> <<"c">>],
     [type |-> "box", lines |-> <<TextOdd, TextEven>>, comment |-> <<"c">>],
     [type |-> "box", lines |-> <<TextEven, << >>, TextOdd>>, comment |-> <<"c">>],
     [type |-> "box", lines |-> <<TextEven, TextOdd, << >>, TextEven>>,
      comment |-> <<"c">>],
     [type |-> "row", boxes |-> <<[text |-> << >>], [text |-> << >>]>>,
      spacing |-> 1, merge |-> TRUE],
     [type |-> "row", boxes |-> <<[text |-> TextEven], [text |-> << >>]>>,
      spacing |-> 0, merge |-> TRUE],
     [type |-> "arrow"],
     [type |-> "text", text |-> TextOdd]}

\* an even and an odd inner width
FlowWidths == {12, 13}

MaxShadeDen == 6

\* shade values n / d as the gradients compute them, x / width
ShadeRatios == {r \in (0..MaxShadeDen) \X (1..MaxShadeDen) : r[1] <= r[2]}

\* contrasts within [0, 1], as numerator and denominator: flat, compressing,
\* the identity, the default and full
UnitContrasts == {<<0, 1>>, <<1, 10>>, <<1, 4>>, <<3, 10>>, <<1, 2>>, <<7, 10>>, <<1, 1>>}

ContrastArgs == [value : ShadeRatios, contrast : UnitContrasts]

MaxShadeWidth == 5

MaxShadeHeight == 4

\* contrast as numerator and denominator: below the range, flat, compressing,
\* the identity, the default 0.7, full and above the range
Contrasts == {<<-1, 4>>, <<0, 1>>, <<3, 10>>, <<1, 2>>, <<7, 10>>, <<1, 1>>, <<2, 1>>}

\* the five directions and a name that is none of them
Directions ==
    {"horizontal", "vertical", "radial", "diagonal", "diagonal_reverse", "spiral"}

\* boxes of one interior row of six cells, where the float arithmetic leaves
\* a shade just below 1
ShadedWide ==
    [width : {8}, height : {3}, title : {None},
     palette : {"ascii", "blocks", "mono"}, direction : Directions,
     contrast : {<<3, 10>>, <<7, 10>>, <<9, 10>>}, box_style : {"light"}]

ShadedArgs ==
    [width : 2..MaxShadeWidth, height : 2..MaxShadeHeight,
     title : {None} \cup {Some(t) : t \in Texts},
     palette : {"ascii", "blocks", "mono"}, direction : Directions,
     contrast : Contrasts, box_style : {"light", "double", "plain"}]
        \cup ShadedWide

\* elements with their required field
GoodElems ==
    {[type |-> "title", text |-> TextOdd],
     [type |-> "table", headers |-> <<<<"A">>, <<"B", "B">>>>,
      rows |-> <<<<<<"x">>, <<"y", "y", "y">>>>>>],
     [type |-> "sparkline", data |-> <<1, 5, 3>>],
     [text |-> TextEven]}

\* elements without the text, the headers or the data of their type
MalformedElems ==
    {[type |-> "title"], [type |-> "table"], [type |-> "sparkline"],
     [type |-> "table", rows |-> <<<<<<"x">>>>>>]}

\* elements with nothing to draw a box around: a box without lines, a row
\* holding such a box, a row without boxes
EmptyBoxElems ==
    {[type |-> "box", lines |-> << >>],
     [type |-> "row", boxes |-> <<[text |-> TextEven], [lines |-> << >>]>>],
     [type |-> "row"]}

\* the elements lists of the tools: one or two elements that render or lack
\* a field, or one of them beside an element with nothing to draw
ToolElements ==
    ListsUpTo(GoodElems \cup MalformedElems, MaxElems - 1)
    \cup {<<e>> : e \in EmptyBoxElems}
    \cup {<<g, e>> : g \in GoodElems, e \in EmptyBoxElems}

\* arguments of the ascii_diagram tool, action "diagram" (server.py 3331-3345)
ToolArgs ==
    [action : {"diagram"},
     elements : ToolElements, width : {12, 13}]

\* arguments of sheets_data, action "diagram" (server.py 1306-1335);
\* sheet_exists is the answer of the spreadsheet service to _get_sheet_id
SheetsArgs ==
    [action : {"diagram"},
     elements : ToolElements,
     data : {None, Some(<< >>), Some(<<"x", "\n", "y">>)},
     width : {12}, frame : BOOLEAN, sheet_exists : BOOLEAN]

(***************************************************************************)
(* Calls                                                                   *)
(***************************************************************************)
\* the spreadsheet before the call has written to it
Untouched == [values |-> None, formatted |-> FALSE]

\* no call of _ascii_diagram is in progress and none has completed
Idle == /\ idx = 0
        /\ result = << >>
        /\ invoked = FALSE
        /\ ret = << >>
        /\ hist = << >>
        /\ tables = Tables0
        /\ sheet = Untouched

\* a call of fn on arguments drawn from A is about to start
Start(f, A) == /\ fn = f
               /\ args \in A
               /\ pc = "ready"
               /\ Idle

\* _ascii_box called directly
CallBox == /\ fn = "_ascii_box"
           /\ pc = "ready"
           /\ ret' = _ascii_box(args.lines, args.width, args.padding,
                                args.bottom_connector, args.top_connector)
           /\ pc' = "done"
           /\ hist' = Append(hist, <<fn, args, ret'>>)
           /\ UNCHANGED <<tables, fn, args, idx, result, invoked, sheet>>

\* a pure function called directly returns r
Return(r) == /\ pc = "ready"
             /\ ret' = r
             /\ pc' = "done"
             /\ hist' = Append(hist, <<fn, args, r>>)
             /\ UNCHANGED <<tables, fn, args, idx, result, invoked, sheet>>

CallProgressBar ==
    /\ fn = "_ascii_progress_bar"
    /\ Return(_ascii_progress_bar(args.value, args.max_value, args.width,
                                  args.show_percent))

CallShadedBox ==
    /\ fn = "_ascii_shaded_box"
    /\ Return(_ascii_shaded_box(args.width, args.height, args.title, args.palette,
                                args.direction, args.contrast, args.box_style))

\* _ascii_apply_contrast on the doubles value[1] / value[2] and
\* contrast[1] / contrast[2]
CallApplyContrast ==
    /\ fn = "_ascii_apply_contrast"
    /\ Return(_ascii_apply_contrast(F64Div(args.value[1], args.value[2]),
                                        F64Div(args.contrast[1], args.contrast[2])))

CallBar ==
    /\ fn = "_ascii_bar"
    /\ Return(_ascii_bar(args.value, args.max_value, args.bar_width))

CallBarChart ==
    /\ fn = "_ascii_bar_chart"
    /\ Return(_ascii_bar_chart(args.data, args.bar_width, args.show_values,
                               args.label_width))

CallBarChartVertical ==
    /\ fn = "_ascii_bar_chart_vertical"
    /\ Return(_ascii_bar_chart_vertical(args.data, args.bar_height, args.bar_width,
                                        args.show_values, args.gap))

CallSparkline ==
    /\ fn = "_ascii_sparkline"
    /\ Return(_ascii_sparkline(args.values))

CallTable ==
    /\ fn = "_ascii_table"
    /\ Return(_ascii_table(args.headers, args.rows, args.box_style))

CallCenter ==
    /\ fn = "_ascii_center"
    /\ Return(_ascii_center(args.text, args.width))

CallBoxRow ==
    /\ fn = "_ascii_box_row"
    /\ Return(_ascii_box_row(args.boxes, args.spacing, args.merge_bottom))

(***************************************************************************)
(* _ascii_diagram as a state machine: one step per element                 *)
(***************************************************************************)
\* frame of the call: the ascii_diagram tool passes none (server.py 3442)
DiagFrame == IF fn = "ascii_diagram" THEN FALSE ELSE args.frame

\* inner_width (server.py 874)
InnerWidth == IF DiagFrame THEN args.width - 4 ELSE args.width

\* a render of a framed diagram that leaves a hyphen as the horizontal glyph
\* of the glyph table
TablesLeakFrame(t, a) ==
    IF a.frame THEN [t EXCEPT !.ASCII.h = <<"-">>] ELSE t

\* the tables after a render: no statement of the engine assigns to a
\* module-level table or to one of its entries (server.py 251-1037)
TablesAfterRender(t, a) == t

\* entering _ascii_diagram (server.py 873-875)
Enter == /\ pc' = "loop"
         /\ idx' = 1
         /\ result' = << >>
         /\ invoked' = TRUE
         /\ UNCHANGED <<tables, fn, args, ret, hist, sheet>>

\* _ascii_diagram called directly
EnterDiagram == /\ fn = "_ascii_diagram"
                /\ pc = "ready"
                /\ Enter

\* the ascii_diagram tool without elements (server.py 3439-3441)
ToolDiagramError ==
    /\ fn = "ascii_diagram"
    /\ args.action = "diagram"
    /\ ~TruthySeq(args.elements)
    /\ Return([error |-> "elements list is required for diagram action"])

\* the ascii_diagram tool with elements (server.py 3439-3442)
ToolDiagramEnter ==
    /\ fn = "ascii_diagram"
    /\ pc = "ready"
    /\ args.action = "diagram"
    /\ TruthySeq(args.elements)
    /\ Enter

\* sheets_data with neither data nor elements (server.py 1819-1821)
SheetsDiagramError ==
    /\ fn = "sheets_data"
    /\ args.action = "diagram"
    /\ ~TruthyOpt(args.data) /\ ~TruthySeq(args.elements)
    /\ Return([error |->
                  "Either data (string) or elements (list) is required for diagram action"])

\* sheets_data is about to ask the service for the spreadsheet
\* (server.py 1823)
SheetsAsking ==
    /\ fn = "sheets_data"
    /\ pc = "ready"
    /\ args.action = "diagram"
    /\ (TruthyOpt(args.data) \/ TruthySeq(args.elements))

\* a request to the service fails: execute() raises and nothing catches it
RequestFails ==
    /\ pc' = "raised"
    /\ ret' = "HttpError"
    /\ UNCHANGED <<tables, fn, args, idx, result, invoked, hist, sheet>>

\* the get request of _get_sheet_id fails (server.py 1112)
SheetsGetFails == SheetsAsking /\ RequestFails

\* _get_sheet_id finds no such sheet (server.py 1823, 1110-1116)
SheetsSheetMissing ==
    /\ SheetsAsking
    /\ ~args.sheet_exists
    /\ pc' = "raised"
    /\ ret' = "ValueError"
    /\ UNCHANGED <<tables, fn, args, idx, result, invoked, hist, sheet>>

\* _get_sheet_id returns the id of the sheet (server.py 1823, 1110-1115)
SheetsGet ==
    /\ SheetsAsking
    /\ args.sheet_exists
    /\ pc' = "got"
    /\ UNCHANGED <<tables, fn, args, idx, result, invoked, ret, hist, sheet>>

\* sheets_data with elements (server.py 1829-1830)
SheetsDiagramEnter ==
    /\ fn = "sheets_data"
    /\ pc = "got"
    /\ TruthySeq(args.elements)
    /\ Enter

\* sheets_data with a data string and no elements: the lines are taken as
\* they are (server.py 1833-1834)
SheetsDiagramRaw ==
    /\ fn = "sheets_data"
    /\ pc = "got"
    /\ ~TruthySeq(args.elements)
    /\ result' = SplitLines(args.data[1])
    /\ pc' = "write"
    /\ UNCHANGED <<tables, fn, args, idx, invoked, ret, hist, sheet>>

\* the values().update request writes one row per line (server.py 1842-1847)
SheetsUpdate ==
    /\ fn = "sheets_data"
    /\ pc = "write"
    /\ sheet' = [values |-> Some(result), formatted |-> FALSE]
    /\ pc' = "format"
    /\ UNCHANGED <<tables, fn, args, idx, result, invoked, ret, hist>>

\* the values().update request fails: nothing is written (server.py 1844-1847)
SheetsUpdateFails == fn = "sheets_data" /\ pc = "write" /\ RequestFails

\* what sheets_data returns of the lines it wrote (server.py 1849-1850,
\* 1902-1907)
SheetsReturned(lines) ==
    [lines |-> Len(lines),
     max_width |-> IF Len(lines) > 0 THEN MaxOf(LineLens(lines)) ELSE 0]

\* the batchUpdate request formats the rows, and sheets_data returns
\* (server.py 1852-1907)
SheetsBatchUpdate ==
    /\ fn = "sheets_data"
    /\ pc = "format"
    /\ sheet' = [sheet EXCEPT !.formatted = TRUE]
    /\ ret' = SheetsReturned(result)
    /\ pc' = "done"
    /\ hist' = Append(hist, <<fn, args, SheetsReturned(result)>>)
    /\ UNCHANGED <<tables, fn, args, idx, result, invoked>>

\* the batchUpdate request fails after the values were written
\* (server.py 1896-1898)
SheetsBatchUpdateFails == fn = "sheets_data" /\ pc = "format" /\ RequestFails

\* the element the loop is at has type t and raises nothing
At(t) == /\ pc = "loop"
         /\ idx <= Len(args.elements)
         /\ ElemType(args.elements[idx]) = t
         /\ ElemRaises(args.elements[idx]) = ""

\* the loop appends lines and moves on (server.py 878)
Emit(lines) == /\ result' = result \o lines
                 /\ idx' = idx + 1
                 /\ UNCHANGED <<tables, fn, args, pc, invoked, ret, hist, sheet>>

StepTitle == At("title") /\ Emit(LinesTitle(args.elements[idx], InnerWidth))

StepRow == At("row") /\ Emit(LinesRow(args.elements[idx], InnerWidth))

StepBox == At("box") /\ Emit(LinesBox(args.elements, idx, InnerWidth))

StepSpacer == At("spacer") /\ Emit(<<<< >>>>)

StepText == At("text") /\ Emit(LinesText(args.elements[idx]))

StepArrow == At("arrow") /\ Emit(LinesArrow(args.elements[idx], InnerWidth))

StepBarChart == At("bar_chart") /\ Emit(LinesBarChart(args.elements[idx]))

StepBarChartVertical ==
    At("bar_chart_vertical") /\ Emit(LinesBarChartVertical(args.elements[idx]))

StepSparkline == At("sparkline") /\ Emit(LinesSparkline(args.elements[idx]))

StepProgress == At("progress") /\ Emit(LinesProgress(args.elements[idx]))

StepShadedBox == At("shaded_box") /\ Emit(LinesShadedBox(args.elements[idx]))

StepTable == At("table") /\ Emit(LinesTable(args.elements[idx]))

\* no branch of the if/elif chain matches: nothing is appended
StepUnknown == /\ pc = "loop"
               /\ idx <= Len(args.elements)
               /\ ElemType(args.elements[idx]) \notin BranchTypes
               /\ Emit(<< >>)

\* an element raises: the call is left by the exception
StepRaise == /\ pc = "loop"
             /\ idx <= Len(args.elements)
             /\ ElemRaises(args.elements[idx]) # ""
             /\ pc' = "raised"
             /\ ret' = ElemRaises(args.elements[idx])
             /\ UNCHANGED <<tables, fn, args, idx, result, invoked, hist, sheet>>

\* what the entry point returns from the rendered lines: _ascii_diagram the
\* joined text (server.py 1037), the ascii_diagram tool the text and its
\* lines (server.py 3442-3443)
Returned(lines) ==
    LET text == Join(<<"\n">>, lines)
    IN IF fn = "ascii_diagram" THEN [lines |-> SplitLines(text), text |-> text]
       ELSE text

\* result after the loop: framed when asked (server.py 1033-1035)
Framed == IF DiagFrame THEN _ascii_frame(result, args.width, 1, TRUE) ELSE result

\* the loop is over: frame, join, return (server.py 1033-1037)
Finish ==
    /\ fn # "sheets_data"
    /\ pc = "loop"
    /\ idx > Len(args.elements)
    /\ result' = Framed
    /\ ret' = Returned(Framed)
    /\ hist' = Append(hist, <<fn, args, Returned(Framed)>>)
    /\ pc' = "done"
    /\ tables' = TablesAfterRender(tables, args)
    /\ UNCHANGED <<fn, args, idx, invoked, sheet>>

\* _ascii_diagram returns to sheets_data, which splits the text into the
\* lines to write (server.py 1033-1037, 1830-1831)
SheetsRendered ==
    /\ fn = "sheets_data"
    /\ pc = "loop"
    /\ idx > Len(args.elements)
    /\ result' = SplitLines(Join(<<"\n">>, Framed))
    /\ pc' = "write"
    /\ tables' = TablesAfterRender(tables, args)
    /\ UNCHANGED <<fn, args, idx, invoked, ret, hist, sheet>>

(***************************************************************************)
(* Specifications                                                          *)
(***************************************************************************)
InitBox == Start("_ascii_box", BoxArgs)

NextBox == CallBox

SpecBox == InitBox /\ [][NextBox]_vars

\* diagrams of boxes, arrows and spacers
InitConn ==
    Start("_ascii_diagram",
          [elements : ListsUpTo(ConnElems, MaxElems), width : DiagramWidths,
           frame : {FALSE}])

NextConn == EnterDiagram \/ StepBox \/ StepArrow \/ StepSpacer \/ Finish

SpecConn == InitConn /\ [][NextConn]_vars

\* diagrams of one arrow
InitArrow ==
    Start("_ascii_diagram",
          [elements : {<<e>> : e \in ArrowElems}, width : DiagramWidths,
           frame : {FALSE}])

NextArrow == EnterDiagram \/ StepArrow \/ Finish

SpecArrow == InitArrow /\ [][NextArrow]_vars

InitProgress == Start("_ascii_progress_bar", ProgressArgs)

NextProgress == CallProgressBar

SpecProgress == InitProgress /\ [][NextProgress]_vars

InitShaded == Start("_ascii_shaded_box", ShadedArgs)

NextShaded == CallShadedBox

SpecShaded == InitShaded /\ [][NextShaded]_vars

\* the diagram action of the two tools
InitTool == Start("ascii_diagram", ToolArgs) \/ Start("sheets_data", SheetsArgs)

NextTool ==
    \/ ToolDiagramError \/ ToolDiagramEnter
    \/ SheetsDiagramError \/ SheetsGetFails \/ SheetsSheetMissing \/ SheetsGet
    \/ SheetsDiagramEnter \/ SheetsDiagramRaw
    \/ StepTitle \/ StepTable \/ StepSparkline \/ StepText \/ StepRaise
    \/ Finish \/ SheetsRendered
    \/ SheetsUpdate \/ SheetsUpdateFails
    \/ SheetsBatchUpdate \/ SheetsBatchUpdateFails

SpecTool == InitTool /\ [][NextTool]_vars

\* the horizontal bar and the horizontal bar chart
InitChart ==
    \/ Start("_ascii_bar", BarArgs)
    \/ Start("_ascii_bar_chart", ChartArgs)
    \/ Start("_ascii_bar_chart_vertical", VChartArgs)

NextChart == CallBar \/ CallBarChart \/ CallBarChartVertical

SpecChart == InitChart /\ [][NextChart]_vars

InitSpark == Start("_ascii_sparkline", SparkArgs)

NextSpark == CallSparkline

SpecSpark == InitSpark /\ [][NextSpark]_vars

InitTable == Start("_ascii_table", TableArgs)

NextTable == CallTable

SpecTable == InitTable /\ [][NextTable]_vars

\* diagrams with elements of unknown types
InitUnknown ==
    Start("_ascii_diagram",
          [elements : ListsUpTo(UnknownMixElems, MaxElems), width : {12},
           frame : {FALSE}])

NextUnknown ==
    \/ EnterDiagram \/ StepBox \/ StepArrow \/ StepText \/ StepBarChart
    \/ StepBarChartVertical \/ StepUnknown \/ Finish

SpecUnknown == InitUnknown /\ [][NextUnknown]_vars

\* diagrams of commented boxes, merged rows, down arrows and texts
InitFlow ==
    Start("_ascii_diagram",
          [elements : ListsUpTo(FlowElems, MaxElems), width : FlowWidths,
           frame : {FALSE}])

NextFlow == EnterDiagram \/ StepBox \/ StepRow \/ StepArrow \/ StepText \/ Finish

SpecFlow == InitFlow /\ [][NextFlow]_vars

InitContrast == Start("_ascii_apply_contrast", ContrastArgs)

NextContrast == CallApplyContrast

SpecContrast == InitContrast /\ [][NextContrast]_vars

InitCenter == Start("_ascii_center", CenterArgs)

NextCenter == CallCenter

SpecCenter == InitCenter /\ [][NextCenter]_vars

\* diagrams with and without a frame
InitFrame ==
    Start("_ascii_diagram",
          [elements : ListsUpTo(FrameElems, MaxElems), width : FrameWidths,
           frame : BOOLEAN])

NextFrame == EnterDiagram \/ StepText \/ StepSpacer \/ StepTitle \/ Finish

SpecFrame == InitFrame /\ [][NextFrame]_vars

InitRow == Start("_ascii_box_row", RowArgs)

NextRow == CallBoxRow

SpecRow == InitRow /\ [][NextRow]_vars

MaxCalls == 3

\* element lists of the repeated renders: a title, a box above an arrow, a
\* merged row of boxes of different heights, a progress bar above a shaded box
DetElements ==
    {<<[type |-> "title", text |-> TextOdd]>>,
     <<[type |-> "box", text |-> TextEven], [type |-> "arrow"]>>,
     <<[type |-> "row", merge |-> TRUE, spacing |-> 1,
        boxes |-> <<[text |-> TextEven], [lines |-> <<TextOdd, TextEven>>]>>]>>,
     <<[type |-> "progress", value |-> 3, max |-> 4, width |-> 4],
       [type |-> "shaded_box", width |-> 4, height |-> 3]>>}

DetDiagramArgs == [elements : DetElements, width : {12}, frame : BOOLEAN]

DetBoxArgs ==
    {[lines |-> <<TextOdd>>, width |-> None, padding |-> 1,
      bottom_connector |-> TRUE, top_connector |-> FALSE]}

DetProgressArgs ==
    {[value |-> 3, max_value |-> 4, width |-> 4, show_percent |-> TRUE]}

DetShadedArgs ==
    {[width |-> 4, height |-> 3, title |-> None, palette |-> "blocks",
      direction |-> "radial", contrast |-> <<1, 2>>, box_style |-> "double"]}

\* the previous call is over and the next one, of f on arguments drawn
\* from A, is about to start; only the tables and the log outlive a call
NewCall(f, A) ==
    /\ pc = "done"
    /\ Len(hist) < MaxCalls
    /\ fn' = f
    /\ args' \in A
    /\ pc' = "ready"
    /\ idx' = 0
    /\ result' = << >>
    /\ invoked' = FALSE
    /\ ret' = << >>
    /\ UNCHANGED <<tables, hist, sheet>>

NewDiagram == NewCall("_ascii_diagram", DetDiagramArgs)

NewBox == NewCall("_ascii_box", DetBoxArgs)

NewProgressBar == NewCall("_ascii_progress_bar", DetProgressArgs)

NewShadedBox == NewCall("_ascii_shaded_box", DetShadedArgs)

\* renders one after another in one process
InitDet == Start("_ascii_diagram", DetDiagramArgs)

NextDet ==
    \/ NewDiagram \/ NewBox \/ NewProgressBar \/ NewShadedBox
    \/ CallBox \/ CallProgressBar \/ CallShadedBox
    \/ EnterDiagram \/ StepTitle \/ StepBox \/ StepArrow \/ StepRow
    \/ StepProgress \/ StepShadedBox \/ Finish

SpecDet == InitDet /\ [][NextDet]_vars

(***************************************************************************)
(* Claims                                                                  *)
(***************************************************************************)
\* every line of a list has the same length
Rectangular(ls) == Cardinality(LineLens(ls)) <= 1

\* the glyph g occurs in the line
HasGlyph(line, g) == \E k \in 1..Len(line) : line[k] = g

\* the 0-based columns of the line that hold the glyph g
Columns(line, g) == {k - 1 : k \in {j \in 1..Len(line) : line[j] = g}}

\* the number of times the glyph g occurs in the line
Count(line, g) == Cardinality(Columns(line, g))

T_UP == ASCII0.t_up[1]

T_DOWN == ASCII0.t_down[1]

\* C1: whatever the content lines, the explicit width (also one smaller than
\* 2 + 2*padding or than the content), the padding and the connector flags,
\* all lines returned by _ascii_box have the same length.
C1_BoxRectangular == (fn = "_ascii_box" /\ pc = "done") => Rectangular(ret)

\* C2: two completed calls of _ascii_diagram on the same elements, width
\* and frame flag returned the same string, whatever calls were made in
\* between, and the glyph, palette and style tables are what they were when
\* the module was loaded.
C2_Deterministic ==
    /\ \A i, j \in 1..Len(hist) :
          (hist[i][1] = "_ascii_diagram" /\ hist[j][1] = "_ascii_diagram"
              /\ hist[i][2] = hist[j][2]) => hist[i][3] = hist[j][3]
    /\ tables = Tables0

\* a framed diagram rendered, another render call made, and the same framed
\* diagram rendered again with the same result
C2_Witness ==
    /\ Len(hist) = 3
    /\ hist[1][1] = "_ascii_diagram"
    /\ hist[1][2].frame
    /\ hist[2][1] # "_ascii_diagram"
    /\ hist[3] = hist[1]

\* the loop of _ascii_diagram has just rendered the box at position idx - 1
BoxJustRendered ==
    /\ fn = "_ascii_diagram"
    /\ pc = "loop"
    /\ idx > 1
    /\ ElemType(args.elements[idx - 1]) = "box"

\* the number of lines a box element renders to: its content and two borders
BoxHeight(elem) == Len(Get(elem, "lines", <<Get(elem, "text", << >>)>>)) + 2

\* the bottom and the top border of the box just rendered, in the output
BottomBorder == result[Len(result)]

TopBorder == result[Len(result) - BoxHeight(args.elements[idx - 1]) + 1]

\* the element at position i exists, is an arrow, and points down or names
\* no direction
DownArrowAt(i) ==
    /\ 1 <= i /\ i <= Len(args.elements)
    /\ "type" \in DOMAIN args.elements[i]
    /\ args.elements[i].type = "arrow"
    /\ \/ "direction" \notin DOMAIN args.elements[i]
       \/ args.elements[i].direction = "down"

\* the element at position i sets the flag k to true
SetsFlag(i, k) == k \in DOMAIN args.elements[i] /\ args.elements[i][k] = TRUE

\* C3: the bottom border of a box of a diagram holds the up-T junction glyph
\* exactly when the box sets bottom_connector or the element right after it
\* is an arrow pointing down (or naming no direction); nothing before the box
\* and nothing further ahead matters.
C3_AutoBottomConnector ==
    BoxJustRendered =>
        (HasGlyph(BottomBorder, T_UP)
            <=> (SetsFlag(idx - 1, "bottom_connector") \/ DownArrowAt(idx)))

\* a box that asks for no connector, with an element before it, gets the
\* junction from the down arrow that follows it
C3_Witness ==
    /\ BoxJustRendered
    /\ idx > 2
    /\ "bottom_connector" \notin DOMAIN args.elements[idx - 1]
    /\ DownArrowAt(idx)
    /\ HasGlyph(BottomBorder, T_UP)

\* C4: the top border of a box of a diagram holds the down-T junction glyph
\* exactly when the box itself sets top_connector, whatever precedes and
\* follows it, an arrow directly above included.
C4_NoAutoTopConnector ==
    BoxJustRendered =>
        (HasGlyph(TopBorder, T_DOWN) <=> SetsFlag(idx - 1, "top_connector"))

\* a box directly below a down arrow, itself followed by a down arrow, that
\* does not set top_connector has a plain top border
C4_Witness ==
    /\ BoxJustRendered
    /\ DownArrowAt(idx - 2)
    /\ DownArrowAt(idx)
    /\ ~SetsFlag(idx - 1, "top_connector")
    /\ ~HasGlyph(TopBorder, T_DOWN)

\* the loop has just rendered a down arrow with x = 0 right below a box with
\* x = 0 that is narrower than the inner width
ArrowBelowCenteredBox ==
    /\ fn = "_ascii_diagram"
    /\ pc = "loop"
    /\ idx > 2
    /\ ElemType(args.elements[idx - 2]) = "box"
    /\ Get(args.elements[idx - 2], "x", 0) = 0
    /\ DownArrowAt(idx - 1)
    /\ Get(args.elements[idx - 1], "x", 0) = 0
    /\ Len(DiagramBoxLines(args.elements, idx - 2)[1]) < InnerWidth

\* the number of lines of the arrow just rendered: its shaft and its head
ArrowHeight == Get(args.elements[idx - 1], "length", 1) + 1

\* C5: when a down arrow with x = 0 follows a box with x = 0 narrower than
\* the inner width, the box's bottom junction, the arrow's shaft and its
\* head are all in column inner_width // 2, for odd and even box widths.
C5_BoxArrowAligned ==
    ArrowBelowCenteredBox =>
        /\ Columns(result[Len(result) - ArrowHeight], T_UP) = {InnerWidth \div 2}
        /\ \A k \in 1..(ArrowHeight - 1) :
              Columns(result[Len(result) - k], ASCII0.v[1]) = {InnerWidth \div 2}
        /\ Columns(result[Len(result)], ASCII0.arrow_d[1]) = {InnerWidth \div 2}

\* the loop of a one-arrow diagram has just rendered a left or right arrow
\* of length n >= 1 (8 when the element names none)
HorizontalArrowRendered ==
    /\ fn = "_ascii_diagram"
    /\ pc = "loop"
    /\ idx = 2
    /\ ElemType(args.elements[1]) = "arrow"
    /\ Get(args.elements[1], "direction", "down") \in {"left", "right"}
    /\ Get(args.elements[1], "length", 8) >= 1

\* the rendered arrow line after its x indent
ArrowBody == SubSeq(result[1], Get(args.elements[1], "x", 0) + 1, Len(result[1]))

\* the arrow is one line made of shaft horizontal glyphs and one arrowhead,
\* last for right and first for left, after an indent of x spaces
ArrowShape(shaft) ==
    LET elem == args.elements[1]
        x == Get(elem, "x", 0)
    IN /\ Len(result) = 1
       /\ Len(result[1]) = x + shaft + 1
       /\ SubSeq(result[1], 1, x) = Rep(<<" ">>, x)
       /\ Count(ArrowBody, ASCII0.h[1]) = shaft
       /\ elem.direction = "right" => ArrowBody[Len(ArrowBody)] = ASCII0.arrow_r[1]
       /\ elem.direction = "left" => ArrowBody[1] = ASCII0.arrow_l[1]

\* C6 as claimed: a left or right arrow of length n is n horizontal glyphs
\* plus one arrowhead.
C6_ArrowLengthPlusHead ==
    HorizontalArrowRendered => ArrowShape(Get(args.elements[1], "length", 8))

\* C6 amended: a left or right arrow of length n >= 1 is n - 1 horizontal
\* glyphs plus one arrowhead, n characters in all, the arrowhead last for
\* right and first for left.
C6_ArrowLengthWithHead ==
    HorizontalArrowRendered => ArrowShape(Get(args.elements[1], "length", 8) - 1)

\* an indented left arrow of length 3: the arrowhead and two horizontal glyphs
C6_Witness ==
    /\ HorizontalArrowRendered
    /\ args.elements[1].direction = "left"
    /\ Get(args.elements[1], "length", 8) = 3
    /\ Get(args.elements[1], "x", 0) = 2
    /\ Len(ArrowBody) = 3

\* filled as claimed: floor(clamp(value / max_value, 0, 1) * width), the
\* ratio being 0 when max_value <= 0
ClaimedFilled(value, max_value, width) ==
    IF max_value <= 0 \/ value <= 0 THEN 0
    ELSE IF value >= max_value THEN width
    ELSE (value * width) \div max_value

\* C7: the progress bar is "[", filled full blocks, width - filled light
\* shades, "]" with filled = floor(clamp(value/max_value, 0, 1) * width), for
\* negative, zero and too large values alike.
C7_ProgressFill ==
    (fn = "_ascii_progress_bar" /\ pc = "done") =>
        LET filled == ClaimedFilled(args.value, args.max_value, args.width)
        IN /\ 0 <= filled /\ filled <= args.width
           /\ Len(ret) >= args.width + 2
           /\ SubSeq(ret, 1, args.width + 2)
                  = <<"[">> \o Rep(<<CHART_BLOCKS0[1]>>, filled)
                        \o Rep(LIGHT_SHADE, args.width - filled) \o <<"]">>

\* the required fields the claim names: the text of a title, the headers of
\* a table, the data of a sparkline
LacksRequiredField(elem) ==
    \/ ElemType(elem) = "title" /\ "text" \notin DOMAIN elem
    \/ ElemType(elem) = "table" /\ "headers" \notin DOMAIN elem
    \/ ElemType(elem) = "sparkline" /\ "data" \notin DOMAIN elem

\* C8: a diagram request of a tool whose elements list holds an element
\* without its required field is answered by an error result, and
\* _ascii_diagram is never entered for it.
C8_MalformedRejected ==
    (/\ fn \in {"ascii_diagram", "sheets_data"}
     /\ \E i \in 1..Len(args.elements) : LacksRequiredField(args.elements[i]))
        => /\ ~invoked
           /\ pc # "raised"
           /\ pc = "done" => "error" \in DOMAIN ret

\* C9: _ascii_shaded_box returns height lines of width characters each, for
\* every title, one longer than width - 4 included.
C9_ShadedRectangle ==
    (fn = "_ascii_shaded_box" /\ pc = "done") =>
        /\ Len(ret) = args.height
        /\ LineLens(ret) = {args.width}

\* the interior cells of the shaded box of the call, 0-based
ShadedCells == (0..(args.width - 3)) \X (0..(args.height - 3))

\* the raw shade of the interior cell c of the call
CellRawShade(c) ==
    _ascii_shade_value(c[1], c[2], args.width - 2, args.height - 2, args.direction)

\* the contrast of the call, as the float it is
ArgContrast == F64Div(args.contrast[1], args.contrast[2])

\* C10: for every interior cell, direction, contrast and palette the
\* contrast-adjusted shade is within [0, 1], the palette index within
\* [0, len(palette) - 1], and the cell shows the palette character at it.
C10_ShadeClamp ==
    (fn = "_ascii_shaded_box" /\ pc = "done") =>
        LET shade_chars == Get(SHADING_PALETTES0, args.palette, SHADING_PALETTES0.blocks)
        IN \A c \in ShadedCells :
              LET shade == _ascii_apply_contrast(CellRawShade(c), ArgContrast)
                  char_idx == CellIndex(shade, Len(shade_chars))
              IN /\ F64Le(F64Zero, shade)
                 /\ F64Le(shade, F64Of(1))
                 /\ char_idx \in 0..(Len(shade_chars) - 1)
                 /\ ret[c[2] + 2][c[1] + 2] = shade_chars[char_idx + 1]

\* a box with a cell the contrast curve sends below 0 and a cell it sends
\* above 1, and a box of a direction that is none of the five
C10_Witness ==
    /\ fn = "_ascii_shaded_box"
    /\ pc = "done"
    /\ \E c \in ShadedCells : F64Lt(ContrastRaw(CellRawShade(c), ArgContrast), F64Zero)
    /\ \E c \in ShadedCells : F64Lt(F64Of(1), ContrastRaw(CellRawShade(c), ArgContrast))

\* C11: every line of a horizontal bar chart has its label field of the same
\* width, whether label_width is computed or given (also shorter than a
\* label), so the bar separator glyph is in one column on all lines.
C11_UniformLabelColumn ==
    (fn = "_ascii_bar_chart" /\ pc = "done") =>
        Cardinality(UNION {Columns(ret[i], ASCII0.v[1]) : i \in 1..Len(ret)}) <= 1

\* eighths as claimed, in integer arithmetic: floor(min(v/m, 1) * bar_width * 8)
ClaimedEighths(value, max_value, bar_width) ==
    IF value >= max_value THEN bar_width * 8
    ELSE (value * bar_width * 8) \div max_value

\* C12: for v > 0 and m > 0 the bar is eighths // 8 full blocks followed by
\* the partial glyph CHART_BLOCKS[8 - eighths % 8] when eighths % 8 > 0, with
\* eighths = floor(min(v/m, 1) * bar_width * 8); the bar of the maximum is
\* bar_width full blocks, no bar is longer than bar_width, and half the
\* maximum has half the eighths.
C12_BarScaling ==
    (fn = "_ascii_bar" /\ pc = "done" /\ args.value > 0 /\ args.max_value > 0) =>
        LET eighths == ClaimedEighths(args.value, args.max_value, args.bar_width)
            full == Rep(<<CHART_BLOCKS0[1]>>, eighths \div 8)
        IN /\ ret = IF eighths % 8 > 0
                    THEN full \o <<CHART_BLOCKS0[8 - (eighths % 8) + 1]>>
                    ELSE full
           /\ Len(ret) <= args.bar_width
           /\ args.value = args.max_value
                  => ret = Rep(<<CHART_BLOCKS0[1]>>, args.bar_width)
           /\ 2 * args.value = args.max_value
                  => /\ 2 * eighths = 8 * args.bar_width
                     /\ ret = Rep(<<CHART_BLOCKS0[1]>>, args.bar_width \div 2)
                                \o IF args.bar_width % 2 = 1
                                   THEN <<CHART_BLOCKS0[5]>> ELSE << >>

\* the series of the call is not constant
NonDegenerate ==
    \E i, j \in 1..Len(args.values) : args.values[i] # args.values[j]

\* the ramp index of a sparkline character
RampIndex(ch) == CHOOSE k \in 0..7 : SPARKLINE_CHARS0[k + 1] = ch

\* C13: in the sparkline of a series that is not constant every character is
\* one of the eight ramp characters, and of two values a <= b of the series
\* a gets a ramp index less than or equal to the ramp index of b.
C13_SparklineMonotone ==
    (fn = "_ascii_sparkline" /\ pc = "done" /\ NonDegenerate) =>
        /\ \A i \in 1..Len(ret) :
              \E k \in 0..7 : SPARKLINE_CHARS0[k + 1] = ret[i]
        /\ \A i, j \in 1..Len(args.values) :
              args.values[i] <= args.values[j]
                  => RampIndex(ret[i]) <= RampIndex(ret[j])

\* the series 4, -1, 0, 3: the maximum at index 7, the minimum at 0, and 0
\* and 3 at 1 and 5
C13_Witness ==
    /\ fn = "_ascii_sparkline"
    /\ pc = "done"
    /\ args.values = <<4, -1, 0, 3>>
    /\ ret = <<SPARKLINE_CHARS0[8], SPARKLINE_CHARS0[1], SPARKLINE_CHARS0[2],
               SPARKLINE_CHARS0[6]>>

\* C14: the sparkline has one character per value; a constant series of
\* N >= 1 values gives N copies of the ramp character at index 4, and the
\* empty series the empty string.
C14_SparklineLength ==
    (fn = "_ascii_sparkline" /\ pc = "done") =>
        /\ Len(ret) = Len(args.values)
        /\ (Len(args.values) >= 1 /\ ~NonDegenerate)
               => ret = Rep(<<SPARKLINE_CHARS0[5]>>, Len(args.values))
        /\ Len(args.values) = 0 => ret = << >>

\* a constant series of three negative values
C14_Witness ==
    /\ fn = "_ascii_sparkline"
    /\ pc = "done"
    /\ args.values = <<-2, -2, -2>>
    /\ ret = <<SPARKLINE_CHARS0[5], SPARKLINE_CHARS0[5], SPARKLINE_CHARS0[5]>>

\* the width claimed for column i of the table of the call
ClaimedColWidth(i) ==
    MaxOf({Len(args.headers[i])}
          \cup {Len(args.rows[r][i]) :
                   r \in {k \in 1..Len(args.rows) : i <= Len(args.rows[k])}})

\* the rows of the call without the cells beyond the last header
RowsCut ==
    [r \in 1..Len(args.rows) |->
        SubSeq(args.rows[r], 1, Min2(Len(args.rows[r]), Len(args.headers)))]

\* C15: column i of a table is as wide as the longest of header i and the
\* cells at position i of all rows: the top border has that many horizontal
\* glyphs plus two per column, and a row with a cell for every column is as
\* long as the border; cells beyond the last header change no output line.
C15_TableColumnWidths ==
    (fn = "_ascii_table" /\ pc = "done") =>
        LET chars == BOX_STYLES0[args.box_style]
            n == Len(args.headers)
        IN /\ ret[1] = chars.tl
                 \o Flatten([i \in 1..n |->
                        Rep(chars.h, ClaimedColWidth(i) + 2)
                        \o (IF i < n THEN chars.t_down ELSE chars.tr)])
           /\ Len(ret) = Len(args.rows) + 4
           /\ \A r \in 1..Len(args.rows) :
                 Len(args.rows[r]) >= n => Len(ret[r + 3]) = Len(ret[1])
           /\ ret = _ascii_table(args.headers, RowsCut, args.box_style)

\* two columns, the second widened by a cell of the second row, and a long
\* third cell that belongs to no column
C15_Witness ==
    /\ fn = "_ascii_table"
    /\ pc = "done"
    /\ args.headers = <<<<"A">>, <<"B", "B">>>>
    /\ args.rows = <<<<<< >>>>, <<<< >>, <<"y", "y", "y">>, <<"y", "y", "y">>>>>>
    /\ Len(ret[1]) = 11
    /\ Len(ret[4]) = 5
    /\ Len(ret[5]) = 11

\* the loop is at an element whose type has no branch
AtUnknown ==
    /\ fn = "_ascii_diagram"
    /\ pc = "loop"
    /\ idx <= Len(args.elements)
    /\ ElemType(args.elements[idx]) \notin BranchTypes

\* C16: the step of the loop over an element of an unrecognised type appends
\* no line and raises nothing, and a box right before such an element gets a
\* bottom junction only from its own bottom_connector flag.
C16_UnknownSkipped ==
    /\ [][AtUnknown => (result' = result /\ idx' = idx + 1 /\ pc' = "loop")]_vars
    /\ [](BoxJustRendered /\ AtUnknown
              => (HasGlyph(BottomBorder, T_UP)
                      <=> SetsFlag(idx - 1, "bottom_connector")))

\* a box followed by an element of unknown type that names no direction:
\* after the element the output is the three lines of the box, the bottom
\* border without a junction
C16_Witness ==
    /\ fn = "_ascii_diagram"
    /\ pc = "loop"
    /\ idx = 3
    /\ ElemType(args.elements[1]) = "box"
    /\ args.elements[2] = [type |-> "circle"]
    /\ Len(result) = 3
    /\ ~HasGlyph(result[3], T_UP)

\* the text t occurs in the text s
Contains(s, t) ==
    \E k \in 1..(Len(s) - Len(t) + 1) : SubSeq(s, k, k + Len(t) - 1) = t

\* C17: a diagram with an element {"type": "line", "text": T}, an element
\* shape of the docstring, has T in its output.
C17_LineRendered ==
    (/\ fn = "_ascii_diagram"
     /\ pc = "done"
     /\ \E i \in 1..Len(args.elements) : ElemType(args.elements[i]) = "line")
        => \A i \in 1..Len(args.elements) :
              ElemType(args.elements[i]) = "line"
                  => Contains(ret, args.elements[i].text)

\* the number of spaces at the start and at the end of a line
LeadingSpaces(line) ==
    Cardinality({k \in 1..Len(line) : \A j \in 1..k : line[j] = " "})

TrailingSpaces(line) ==
    Cardinality({k \in 1..Len(line) : \A j \in k..Len(line) : line[j] = " "})

\* C18: for a text of length L and a width W > L, _ascii_center returns the
\* text after (W - L) // 2 spaces and before the remaining spaces: W
\* characters, as many spaces left as right when W - L is even, one fewer
\* left than right when it is odd.
C18_CenterTieBreak ==
    (fn = "_ascii_center" /\ pc = "done" /\ args.width > Len(args.text)) =>
        LET pad == args.width - Len(args.text)
            left == pad \div 2
        IN /\ ret = Rep(<<" ">>, left) \o args.text \o Rep(<<" ">>, pad - left)
           /\ Len(ret) = args.width
           /\ Len(args.text) > 0 =>
                 /\ pad % 2 = 0 => LeadingSpaces(ret) = TrailingSpaces(ret)
                 /\ pad % 2 = 1 => LeadingSpaces(ret) = TrailingSpaces(ret) - 1

\* "Hey" in eight columns: two spaces before it and three after
C18_Witness ==
    /\ fn = "_ascii_center"
    /\ pc = "done"
    /\ args = [text |-> TextOdd, width |-> 8]
    /\ LeadingSpaces(ret) = 2
    /\ TrailingSpaces(ret) = 3

\* a line padded with spaces, or cut, to w characters
Fit(line, w) ==
    IF Len(line) < w THEN line \o Rep(<<" ">>, w - Len(line))
    ELSE SubSeq(line, 1, w)

\* a border line: the two corners around horizontal glyphs and spaces in turn
DashedBorder(line, lc, rc) ==
    /\ Len(line) >= 2
    /\ line[1] = lc
    /\ line[Len(line)] = rc
    /\ \A k \in 2..(Len(line) - 1) :
          line[k] = IF k % 2 = 0 THEN ASCII0.h[1] ELSE " "

\* C19: with frame = true and a width of at least 4, the step that ends
\* _ascii_diagram turns the n accumulated lines into n + 4 lines: a dashed
\* top border, one blank padded line, every content line in order, padded or
\* cut to width - 4 characters between a space and a border glyph on each
\* side, one blank padded line and a dashed bottom border; the result is
\* these lines joined by newlines.
C19_FrameWrap ==
    [][(/\ fn = "_ascii_diagram"
        /\ pc = "loop"
        /\ pc' = "done"
        /\ args.frame
        /\ args.width >= 4)
       => LET n == Len(result)
              w == args.width - 4
              out == result'
              blank == ASCII0.v \o Rep(<<" ">>, w + 2) \o ASCII0.v
          IN /\ Len(out) = n + 4
             /\ DashedBorder(out[1], ASCII0.tl[1], ASCII0.tr[1])
             /\ out[2] = blank
             /\ \A i \in 1..n :
                   out[i + 2] = ASCII0.v \o <<" ">> \o Fit(result[i], w)
                                    \o <<" ">> \o ASCII0.v
             /\ out[n + 3] = blank
             /\ DashedBorder(out[n + 4], ASCII0.bl[1], ASCII0.br[1])
             /\ ret' = Join(<<"\n">>, out)]_vars

\* a framed diagram of width 9 with a text longer and a text shorter than
\* the inner width: six lines, the long text cut to five characters
C19_Witness ==
    /\ fn = "_ascii_diagram"
    /\ pc = "done"
    /\ args.frame
    /\ args.width = 9
    /\ args.elements = <<[type |-> "text", text |-> SampleText],
                         [type |-> "text", text |-> TextEven]>>
    /\ Len(result) = 6
    /\ result[3] = ASCII0.v \o <<" ">> \o SubSeq(SampleText, 1, 5) \o <<" ">> \o ASCII0.v

\* the total width T of the box of the call: the explicit width, or the
\* longest content line plus the two borders and the padding on both sides
BoxTotalWidth ==
    IF args.width = None \/ args.width[1] = 0
    THEN MaxOf(LineLens(args.lines)) + 2 + 2 * args.padding
    ELSE args.width[1]

\* the border line is corner, (T - 3) // 2 horizontal glyphs, the junction,
\* the remaining horizontal glyphs and corner when the flag is set, and
\* corner, T - 2 horizontal glyphs and corner without a junction otherwise
BorderSplit(line, lc, rc, junction, flag) ==
    LET T == BoxTotalWidth
        half == (T - 3) \div 2
    IN /\ Len(line) = T
       /\ flag => /\ line = <<lc>> \o Rep(ASCII0.h, half) \o <<junction>>
                               \o Rep(ASCII0.h, (T - 3) - half) \o <<rc>>
                  /\ Columns(line, junction) = {1 + half}
       /\ ~flag => /\ line = <<lc>> \o Rep(ASCII0.h, T - 2) \o <<rc>>
                   /\ ~HasGlyph(line, junction)

\* C20: for a box of total width T >= 3 a border with its connector flag set
\* is corner + (T - 3) // 2 horizontal glyphs + junction (down-T on top, up-T
\* at the bottom) + the remaining (T - 3) - (T - 3) // 2 horizontal glyphs +
\* corner: T characters, the junction in column 1 + (T - 3) // 2; a border
\* without its flag has T characters and no junction.
C20_ConnectorSplit ==
    (fn = "_ascii_box" /\ pc = "done" /\ BoxTotalWidth >= 3) =>
        /\ BorderSplit(ret[1], ASCII0.tl[1], ASCII0.tr[1], T_DOWN, args.top_connector)
        /\ BorderSplit(ret[Len(ret)], ASCII0.bl[1], ASCII0.br[1], T_UP,
                       args.bottom_connector)

\* a box of even total width 6 with both connectors: the junctions in
\* column 2, one horizontal glyph before and two after them
C20_Witness ==
    /\ fn = "_ascii_box"
    /\ pc = "done"
    /\ BoxTotalWidth = 6
    /\ args.top_connector
    /\ args.bottom_connector
    /\ Columns(ret[1], T_DOWN) = {2}
    /\ Columns(ret[Len(ret)], T_UP) = {2}

\* box i of the row of the call rendered on its own, without connectors
RowBox(i) ==
    _ascii_box(Get(args.boxes[i], "lines", <<Get(args.boxes[i], "text", << >>)>>),
               None, 1, FALSE, FALSE)

\* the height of the tallest box of the row
RowHeight == MaxOf({Len(RowBox(i)) : i \in 1..Len(args.boxes)})

\* line r of box i in a row of height h as claimed: the box's own lines but
\* the last at the top, blank interior lines under them, the bottom border
\* on the last row
ClaimedBoxLine(i, r, h) ==
    LET box == RowBox(i)
    IN IF r < Len(box) THEN box[r]
       ELSE IF r < h THEN ASCII0.v \o Rep(<<" ">>, Len(box[1]) - 2) \o ASCII0.v
       ELSE box[Len(box)]

\* C21: the box rows of _ascii_box_row are as many as the tallest box has
\* lines (and nothing else without merge); every line is the boxes' lines
\* joined by spacing blanks, a shorter box keeping its top border and
\* content at the top, with blank interior lines right above its bottom
\* border on the last row; all row lines have the same length.
C21_RowHeightEqualised ==
    (fn = "_ascii_box_row" /\ pc = "done") =>
        LET h == RowHeight
        IN /\ Len(ret) >= h
           /\ ~args.merge_bottom => Len(ret) = h
           /\ \A r \in 1..h :
                 ret[r] = Join(Rep(<<" ">>, args.spacing),
                               [i \in 1..Len(args.boxes) |-> ClaimedBoxLine(i, r, h)])
           /\ Rectangular(SubSeq(ret, 1, h))

\* a one-line box beside a three-line box, no merge: five rows, the fourth
\* one starting with a blank interior line of the short box
C21_Witness ==
    /\ fn = "_ascii_box_row"
    /\ pc = "done"
    /\ ~args.merge_bottom
    /\ args.boxes = <<[text |-> TextEven], [lines |-> <<TextEven, << >>, TextOdd>>]>>
    /\ Len(ret) = 5
    /\ SubSeq(ret[4], 1, 6) = ASCII0.v \o <<" ", " ", " ", " ">> \o ASCII0.v

\* the merge lines are requested and the row has two or more boxes
Merging ==
    /\ fn = "_ascii_box_row"
    /\ pc = "done"
    /\ args.merge_bottom
    /\ Len(args.boxes) >= 2

\* the 0-based center columns of the boxes, read off the first row line: a
\* box spans from a top-left corner to the next top-right corner, and its
\* center is its first column plus half its width
OutputCenters ==
    LET ends == Columns(ret[1], ASCII0.tr[1])
    IN {LET e == CHOOSE x \in ends :
                    x > b /\ \A y \in ends : y > b => x <= y
        IN b + (e - b + 1) \div 2 : b \in Columns(ret[1], ASCII0.tl[1])}

\* the three merge lines of the result
MergeLine(k) == ret[Len(ret) - 3 + k]

\* C22: with merge and two or more boxes three lines follow the box rows,
\* each as long as the row, the first with a vertical glyph at every box
\* center (offset of the box + its width // 2) and blanks elsewhere; without
\* merge or with one box nothing follows the box rows.
C22_MergeLinesWhenRequested ==
    (fn = "_ascii_box_row" /\ pc = "done") =>
        IF args.merge_bottom /\ Len(args.boxes) >= 2
        THEN /\ Len(ret) = RowHeight + 3
             /\ \A k \in 1..3 : Len(MergeLine(k)) = Len(ret[1])
             /\ Cardinality(OutputCenters) = Len(args.boxes)
             /\ \A c \in 0..(Len(ret[1]) - 1) :
                   MergeLine(1)[c + 1] =
                       IF c \in OutputCenters THEN ASCII0.v[1] ELSE " "
        ELSE Len(ret) = RowHeight

\* three boxes one blank apart, merged: vertical glyphs in columns 3, 10
\* and 18 of the first merge line
C22_Witness ==
    /\ Merging
    /\ args.spacing = 1
    /\ args.boxes = <<[text |-> TextEven], [lines |-> <<TextEven, << >>, TextOdd>>],
                      [text |-> TextOdd]>>
    /\ Columns(MergeLine(1), ASCII0.v[1]) = {3, 10, 18}

\* the leftmost and the rightmost box center and the midpoint of the row
LeftCenter == CHOOSE c \in OutputCenters : \A d \in OutputCenters : c <= d

RightCenter == CHOOSE c \in OutputCenters : \A d \in OutputCenters : d <= c

RowMid == Len(ret[1]) \div 2

\* C23: the second merge line runs from the leftmost to the rightmost box
\* center, a corner at each end, one down-T junction at row width // 2 and
\* horizontal glyphs at all other columns of the run, the centers of the
\* interior boxes included, blanks outside; the third merge line has one
\* vertical glyph, in the junction's column.
C23_SingleMergeJunction ==
    Merging =>
        /\ \A c \in 0..(Len(ret[1]) - 1) :
              MergeLine(2)[c + 1] =
                  IF c = RowMid THEN T_DOWN
                  ELSE IF c = LeftCenter THEN ASCII0.bl[1]
                  ELSE IF c = RightCenter THEN ASCII0.br[1]
                  ELSE IF LeftCenter < c /\ c < RightCenter THEN ASCII0.h[1]
                  ELSE " "
        /\ Count(MergeLine(2), T_DOWN) = 1
        /\ Count(MergeLine(2), ASCII0.bl[1]) = 1
        /\ Count(MergeLine(2), ASCII0.br[1]) = 1
        /\ \A c \in 0..(Len(ret[1]) - 1) :
              MergeLine(3)[c + 1] = IF c = RowMid THEN ASCII0.v[1] ELSE " "

\* three merged boxes one blank apart: the run from column 3 to column 18,
\* the junction in column 11 and a horizontal glyph under the middle box's
\* center in column 10
C23_Witness ==
    /\ Merging
    /\ args.spacing = 1
    /\ args.boxes = <<[text |-> TextEven], [lines |-> <<TextEven, << >>, TextOdd>>],
                      [text |-> TextOdd]>>
    /\ Columns(MergeLine(2), T_DOWN) = {11}
    /\ MergeLine(2)[11] = ASCII0.h[1]
    /\ Columns(MergeLine(3), ASCII0.v[1]) = {11}

\* C29: for two or more boxes and a spacing >= 0 the junction column, row
\* width // 2, is strictly between the leftmost and the rightmost box
\* center, so the second merge line holds both corners and the junction, in
\* these columns, and every column written to is within the row.
C29_JunctionBetweenCorners ==
    Merging =>
        /\ LeftCenter < RowMid
        /\ RowMid < RightCenter
        /\ Columns(MergeLine(2), T_DOWN) = {RowMid}
        /\ Columns(MergeLine(2), ASCII0.bl[1]) = {LeftCenter}
        /\ Columns(MergeLine(2), ASCII0.br[1]) = {RightCenter}
        /\ \A c \in OutputCenters \cup {RowMid} : 0 <= c /\ c < Len(ret[1])

\* two narrow boxes with no blank between them: the corners in columns 2
\* and 6 and the junction in column 4
C29_Witness ==
    /\ Merging
    /\ args.spacing = 0
    /\ args.boxes = <<[text |-> << >>], [text |-> << >>]>>
    /\ LeftCenter = 2
    /\ RowMid = 4
    /\ RightCenter = 6

\* the box just rendered is centered (x = 0) and has a comment
CommentedBoxRendered ==
    /\ BoxJustRendered
    /\ Get(args.elements[idx - 1], "x", 0) = 0
    /\ "comment" \in DOMAIN args.elements[idx - 1]
    /\ Len(args.elements[idx - 1].comment) > 0

\* the content lines of the box just rendered
BoxContent ==
    Get(args.elements[idx - 1], "lines", <<Get(args.elements[idx - 1], "text", << >>)>>)

\* the rendered line r (0-based, the top border being line 0) of the box
\* just rendered, in the output
BoxOutLine(r) == result[Len(result) - BoxHeight(args.elements[idx - 1]) + 1 + r]

\* the annotation of the comment of the box just rendered
Annotation ==
    <<" ", " ">> \o ASCII0.arrow_l \o ASCII0.h \o ASCII0.h \o <<" ">>
    \o args.elements[idx - 1].comment

\* the line ends with the text t
EndsWith(line, t) ==
    Len(line) >= Len(t) /\ SubSeq(line, Len(line) - Len(t) + 1, Len(line)) = t

\* C24: a box with x = 0, a non-empty comment and n >= 1 content lines has
\* the comment annotation appended to exactly one of its output lines, the
\* rendered line (n + 2) // 2, which is the content line n // 2 (0-based)
\* and never a border, for odd and even n.
C24_CommentOnMiddleContentLine ==
    CommentedBoxRendered =>
        LET n == Len(BoxContent)
            m == (n + 2) \div 2
        IN /\ 1 <= m /\ m <= n
           /\ m - 1 = n \div 2
           /\ \A r \in 0..(n + 1) :
                 /\ EndsWith(BoxOutLine(r), Annotation) <=> r = m
                 /\ HasGlyph(BoxOutLine(r), ASCII0.arrow_l[1]) <=> r = m
           /\ Contains(BoxOutLine(m), ASCII0.v \o <<" ">> \o BoxContent[n \div 2 + 1])

\* a box of two content lines: the comment is on the second of them, the
\* third of the four output lines
C24_Witness ==
    /\ CommentedBoxRendered
    /\ idx = 2
    /\ BoxContent = <<TextOdd, TextEven>>
    /\ Len(result) = 4
    /\ EndsWith(result[3], <<" ">> \o args.elements[1].comment)
    /\ Contains(result[3], TextEven)
    /\ ~HasGlyph(result[2], ASCII0.arrow_l[1])

\* the first k elements end with a box that a down arrow follows
SplitsBoxFromArrow(k) ==
    /\ 1 <= k
    /\ k < Len(args.elements)
    /\ ElemType(args.elements[k]) = "box"
    /\ DownArrowAt(k + 1)

\* C25: the unframed lines of a diagram of A followed by B are the lines of
\* the diagram of A followed by the lines of the diagram of B at the same
\* width, unless A ends with a box and B starts with a down arrow.
C25_SinglePassComposition ==
    (fn = "_ascii_diagram" /\ pc = "done" /\ ~args.frame) =>
        \A k \in 0..Len(args.elements) :
            ~SplitsBoxFromArrow(k) =>
                LET A == SubSeq(args.elements, 1, k)
                    B == SubSeq(args.elements, k + 1, Len(args.elements))
                    lines == DiagramResult(A, args.width) \o DiagramResult(B, args.width)
                IN /\ result = lines
                   /\ ret = Join(<<"\n">>, lines)

\* a down arrow, a one-line box and a text: two, three and one lines
C25_Witness ==
    /\ fn = "_ascii_diagram"
    /\ pc = "done"
    /\ Len(args.elements) = 3
    /\ DownArrowAt(1)
    /\ ElemType(args.elements[2]) = "box"
    /\ ElemType(args.elements[3]) = "text"
    /\ Len(result) = 6
    /\ HasGlyph(result[2], ASCII0.arrow_d[1])
    /\ result[6] = args.elements[3].text

\* a merged row of two or more boxes narrower than the inner width was
\* rendered, and after it a down arrow with x = 0
MergedRowThenArrow ==
    /\ fn = "_ascii_diagram"
    /\ pc = "loop"
    /\ idx > 2
    /\ ElemType(args.elements[idx - 2]) = "row"
    /\ Get(args.elements[idx - 2], "merge", FALSE)
    /\ Len(args.elements[idx - 2].boxes) >= 2
    /\ Len(_ascii_box_row(args.elements[idx - 2].boxes,
                          Get(args.elements[idx - 2], "spacing", 4), TRUE)[1])
           < InnerWidth
    /\ DownArrowAt(idx - 1)
    /\ Get(args.elements[idx - 1], "x", 0) = 0

\* C28: the trunk glyph of the last merge line of a merged row narrower than
\* the inner width is in the column of the glyphs of a down arrow with
\* x = 0 that follows it, inner_width // 2, for every parity of the inner
\* width and of the row width.
C28_TrunkAlignsWithArrow ==
    MergedRowThenArrow =>
        /\ Columns(result[Len(result) - ArrowHeight], ASCII0.v[1]) = {InnerWidth \div 2}
        /\ \A k \in 1..(ArrowHeight - 1) :
              Columns(result[Len(result) - k], ASCII0.v[1]) = {InnerWidth \div 2}
        /\ Columns(result[Len(result)], ASCII0.arrow_d[1]) = {InnerWidth \div 2}

\* C26: for every total width >= 4, odd or even, and every content, all
\* lines of a framed diagram, the dashed top and bottom borders included,
\* are exactly as long as the total width.
C26_FramedLinesOfTotalWidth ==
    (fn = "_ascii_diagram" /\ pc = "done" /\ args.frame /\ args.width >= 4) =>
        \A k \in 1..Len(result) : Len(result[k]) = args.width

\* C27: for a non-empty header list and any rows, rows with fewer cells
\* than headers included, _ascii_table returns len(rows) + 4 lines, all of
\* the length 1 + the sum over the columns of (column width + 3).
C27_TableRectangular ==
    (fn = "_ascii_table" /\ pc = "done" /\ Len(args.headers) >= 1) =>
        /\ Len(ret) = Len(args.rows) + 4
        /\ \A k \in 1..Len(ret) :
              Len(ret[k]) =
                  1 + Len(Flatten([i \in 1..Len(args.headers) |->
                                      Rep(<<" ">>, ClaimedColWidth(i) + 3)]))

\* C30: for a contrast in [0, 1] and shade values a <= b in [0, 1] the
\* curve gives apply(a) <= apply(b); it maps 0.5 to 0.5 for every contrast,
\* is the identity for contrast 0.5 and maps every value to 0.5 for
\* contrast 0.
C30_ContrastMonotoneFixesMidpoint ==
    (fn = "_ascii_apply_contrast" /\ pc = "done") =>
        LET contrast == F64Div(args.contrast[1], args.contrast[2])
        IN /\ \A a \in ShadeRatios :
                 a[1] * args.value[2] <= args.value[1] * a[2] =>
                     ~F64Lt(ret, _ascii_apply_contrast(F64Div(a[1], a[2]), contrast))
           /\ 2 * args.value[1] = args.value[2] => ret = F64Div(1, 2)
           /\ args.contrast = <<1, 2>> => ret = F64Div(args.value[1], args.value[2])
           /\ args.contrast = <<0, 1>> => ret = F64Div(1, 2)

====
